---- MODULE Spec2Model ----
(***************************************************************************)
(* Model of the tool-calling orchestration loop of the search agent        *)
(* (src/agents/search_agent/search_agent.py): ToolCaller.action, the tools *)
(* it dispatches, the A2AMessenger progress channel, select_tool, the      *)
(* driver agent_process_single_task and the requests that                  *)
(* SearchServiceAgent.handle_search serves; and of the Slack bot           *)
(* (src/main.py, src/agents/slack_agent/main.py): the handler of a Slack   *)
(* message, the search mode of a thread and the memories table.            *)
(*                                                                         *)
(* Text is modelled as a sequence of string fragments: Python's string     *)
(* concatenation is \o, the empty string is << >>.  The Japanese literals  *)
(* of the source are written as ASCII stand-ins, said at each definition.  *)
(***************************************************************************)
EXTENDS Integers, Sequences, FiniteSets, TLC

VARIABLES
    messages,        \* AgentLocalState.messages held by the caller of action()
    current_task,    \* AgentLocalState.current_task held by the caller
    no_tool_count,   \* ToolCaller.no_tool_count
    wait_for_user,   \* 2nd element of the tuple the latest action() returned
    done,            \* 3rd element of the tuple the latest action() returned
    final_response,  \* A2AMessenger.final_response
    response_ready,  \* A2AMessenger.response_ready
    scheduled,       \* send() coroutines handed to run_coroutine_threadsafe, not yet run
    files,           \* the file system: the set of regular files, with their content
    prev,            \* history: the AgentLocalState given to the latest action()
    last,            \* history: what the latest action() did
    trace,           \* history: one entry per action() call on this ToolCaller
    requests,        \* the handle_search calls of the server, one record each
    selection,       \* one call of select_tool: the stream it reads and what it returns
    _search_mode_state,       \* _search_mode_state of the Slack agent, per thread
    _messages,          \* _messages of the Slack bot: the log of each thread
    handlers,                \* the handle_app_mention calls, one record each
    memories,                \* the rows of the table `memories` of memory.db
    MEMORY_FEATURE_ENABLED,  \* the module constant, read from the environment at import
    db_last,                 \* history: the latest call of a memory function and
                             \* the calls of add_memory so far
    SYSTEM_PROMPT_RULES,     \* SYSTEM_PROMPT_RULES of the Slack agent, the list of rules
    sys,                     \* sys.stdout and sys.stderr of the bot's process
    python_last,             \* history: the latest call of execute_python_code
    URL_CONTENT_CACHE,       \* URL_CONTENT_CACHE of search_tools: the entry of each url
    BLACKLIST_DOMAINS,       \* BLACKLIST_DOMAINS of search_tools
    url_cache_pkl,           \* the file url_cache.pkl: << >>, or <<the dict pickled>>
    blacklist_pkl,           \* the file blacklist.pkl: << >>, or <<the set pickled>>
    cache_calls              \* the calls of get_content and batch_search, one record each

\* The state of execute_python_code.
python_vars == <<sys, python_last>>

\* The state of search_tools.
cache_vars == <<URL_CONTENT_CACHE, BLACKLIST_DOMAINS, url_cache_pkl, blacklist_pkl,
                cache_calls>>

\* The state of the Slack bot and of the search tools.
slack_vars == <<_search_mode_state, _messages, handlers, memories,
                MEMORY_FEATURE_ENABLED, db_last, SYSTEM_PROMPT_RULES, python_vars,
                cache_vars>>

vars == <<messages, current_task, no_tool_count, wait_for_user, done,
          final_response, response_ready, scheduled, files, prev, last, trace,
          requests, selection, _search_mode_state, _messages, handlers,
          memories, MEMORY_FEATURE_ENABLED, db_last, SYSTEM_PROMPT_RULES, sys,
          python_last, URL_CONTENT_CACHE, BLACKLIST_DOMAINS, url_cache_pkl,
          blacklist_pkl, cache_calls>>

(***************************************************************************)
(* Bounds of the model.                                                    *)
(***************************************************************************)
MaxTurns == 4
MaxFileTurns == 1
MaxPathLen == 3
MaxCommandTurns == 1
MaxCommandLen == 3
MaxToolTurns == 2
MaxRequests == 2
MaxRequestTurns == 1
MaxStreamLen == 4
MaxAgentTurns == 4
MaxResponseTurns == 3
MaxSlackEvents == 3
MaxBotEvents == 2
MaxMemoryCalls == 2
MaxLimit == 3
MaxCodeLen == 2
MaxRuleCalls == 3
MaxOverlapEvents == 2
MaxCacheCalls == 3

(***************************************************************************)
(* Values.                                                                 *)
(***************************************************************************)
\* Python's None, as select_tool returns it for function_name, and as the
\* initial A2AMessenger.final_response.
None == "None"

Last(s) == s[Len(s)]

\* Message(role=..., content=...)
Message(role, content) == [role |-> role, content |-> content]

\* SYSTEM_PROMPT + "\n(today is)" + date + "(.)" built by Message.init()
SYSTEM_PROMPT == <<"SYSTEM_PROMPT", "\nTODAY_IS", "DATE">>

MessageInit == << Message("system", SYSTEM_PROMPT) >>

\* f"<failed>\n{str(e)}\n</failed>"
Failed(e) == <<"<failed>\n">> \o e \o <<"\n</failed>">>

\* "No tool was selected in the past 3 turns, so the task is terminated."
complete_message == <<"NO_TOOL_SELECTED_3_TIMES_TASK_TERMINATED">>

\* "No tool was used."
NoToolPlaceholder == <<"NO_TOOL_USED">>

\* f"No tool was selected.\nTask: {current_task}\nThink about which tool to use ..."
Nudge(task) == <<"NO_TOOL_SELECTED\nTASK: ">> \o task \o <<"\nTHINK_WHICH_TOOL_TO_USE">>

\* "Task [" + current_task + "] completed. Returning the result to the A2A client."
CompletedNote(task) == <<"TASK[">> \o task \o <<"]COMPLETED_RETURNING_RESULT_TO_A2A_CLIENT">>

\* "Task updated"
TaskUpdatedNote == <<"TASK_UPDATED">>

\* "Tool execution failed: " + str(e)
FailureNote(e) == <<"TOOL_EXECUTION_FAILED: ">> \o e

\* str(function_name) + "(will be executed)"
Announcement(function_name) == <<function_name, "_WILL_BE_EXECUTED">>

\* "tool used: " + function_name + "\n<result>\n" + str(output) + "\n</result>\n(think
\* about what to do next)\n\n(Task): " + current_task
ResultText(function_name, output, task) ==
    <<"tool used: ", function_name, "\n<result>\n">> \o output
        \o <<"\n</result>\nTHINK_WHAT_TO_DO_NEXT\n\nTASK: ">> \o task

(***************************************************************************)
(* Paths and the file system (pathlib.Path, open).  A path is a flag       *)
(* saying whether it starts at the root, and its components.               *)
(***************************************************************************)
\* pathlib.Path(file_path): "." components (and empty ones) are dropped,
\* ".." components are kept as they are.
IsNotDot(c) == c # "."

Path(file_path) ==
    [abs |-> file_path.abs, parts |-> SelectSeq(file_path.parts, IsNotDot)]

\* pathlib.Path.cwd(): the working directory of the process, /w.
cwd == [abs |-> TRUE, parts |-> <<"w">>]

\* PurePath.parents: the proper lexical prefixes of the path.
Parents(p) ==
    { [abs |-> p.abs, parts |-> SubSeq(p.parts, 1, k)] : k \in 0 .. (Len(p.parts) - 1) }

\* The directories of the file system (no tool creates or removes one).
Dirs == { << >>, <<"w">> }

\* The regular files when the process starts: /w/f inside the working
\* directory and /s outside it.
InitialFiles == (<<"w", "f">> :> <<"c0">>) @@ (<<"s">> :> <<"c1">>)

ParentDir(loc) == IF loc = << >> THEN << >> ELSE SubSeq(loc, 1, Len(loc) - 1)

\* The kernel's path walk from directory `at`: every component is applied to a
\* directory, ".." goes to the parent (the root's parent is the root).
RECURSIVE Walk(_, _)
Walk(at, parts) ==
    IF parts = << >> THEN [ok |-> TRUE, loc |-> at]
    ELSE IF at \notin Dirs THEN [ok |-> FALSE, loc |-> at]
    ELSE LET c == Head(parts)
             to == IF c = ".." THEN ParentDir(at)
                   ELSE IF c = "." THEN at
                   ELSE Append(at, c)
         IN  Walk(to, Tail(parts))

\* Where the operating system looks for a path given to open().
Locate(p) == Walk(IF p.abs THEN << >> ELSE cwd.parts, p.parts)

\* The resolved absolute location of a path, "." and ".." applied.
RECURSIVE Normalize(_, _)
Normalize(at, parts) ==
    IF parts = << >> THEN at
    ELSE LET c == Head(parts)
             to == IF c = ".." THEN ParentDir(at)
                   ELSE IF c = "." THEN at
                   ELSE Append(at, c)
         IN  Normalize(to, Tail(parts))

Resolve(file_path) ==
    Normalize(IF file_path.abs THEN << >> ELSE cwd.parts, file_path.parts)

\* A location strictly below the working directory.
InsideCwd(loc) ==
    /\ Len(loc) > Len(cwd.parts)
    /\ SubSeq(loc, 1, Len(cwd.parts)) = cwd.parts

(***************************************************************************)
(* What one tool call does: whether it raised, the text it returned or the *)
(* text of the exception, the messages it sent with an awaited             *)
(* messenger.send (direct), those it handed to run_coroutine_threadsafe    *)
(* (queued), the file system it leaves, the paths it gave to open() and    *)
(* the command lines it gave to subprocess.run (none but for run_command). *)
(***************************************************************************)
Effect(raised, output, direct, queued, fs, open_calls) ==
    [raised |-> raised, output |-> output, direct |-> direct, queued |-> queued,
     files |-> fs, open_calls |-> open_calls, subprocess |-> << >>]

Returns(output, fs) == Effect(FALSE, output, << >>, << >>, fs, << >>)

Raises(e, fs) == Effect(TRUE, e, << >>, << >>, fs, << >>)

Denial == <<"Error: Access to files outside the current working directory is not allowed.">>

\* The check both file tools make before open().
PathAllowed(file_path) == cwd \in Parents(Path(file_path))

read_file(arguments, fs) ==
    LET p == Path(arguments.file_path)
        at == Locate(p)
    IN  IF ~PathAllowed(arguments.file_path) THEN Returns(Denial, fs)
        ELSE IF at.ok /\ at.loc \in DOMAIN fs
             THEN Effect(FALSE, fs[at.loc], << >>, << >>, fs, <<p>>)
        ELSE IF at.ok /\ at.loc \in Dirs
             THEN Effect(FALSE, <<"[Errno 21] Is a directory">>, << >>, << >>, fs, <<p>>)
        ELSE Effect(FALSE, <<"[Errno 2] No such file or directory">>, << >>, << >>, fs, <<p>>)

write_file(arguments, fs) ==
    LET p == arguments.file_path
        at == Locate(p)
    IN  IF ~PathAllowed(arguments.file_path) THEN Returns(Denial, fs)
        ELSE IF at.ok /\ at.loc \in Dirs
             THEN Effect(FALSE, <<"[Errno 21] Is a directory">>, << >>, << >>, fs, <<p>>)
        ELSE IF at.ok /\ ParentDir(at.loc) \in Dirs
             THEN Effect(FALSE, <<"File written successfully">>, << >>, << >>,
                         (at.loc :> arguments.content) @@ fs, <<p>>)
        ELSE Effect(FALSE, <<"[Errno 2] No such file or directory">>, << >>, << >>, fs, <<p>>)

(***************************************************************************)
(* The other tools of ToolCaller.__init__.  `env` is what the outside      *)
(* world answers to the call (the subprocess, the search provider, the     *)
(* content fetcher and the nested inference call).                         *)
(***************************************************************************)
\* The two programs run_command lets through.
AllowedCommands == {"curl", "wget"}

\* The fragments of a command string that are white space.
Whitespace == {" "}

\* command.strip().split(): the maximal runs of fragments without white space.
\* Fragments next to each other with no white space between them are one token.
RECURSIVE Tokens(_)
Tokens(command) ==
    IF command = << >> THEN << >>
    ELSE IF Head(command) \in Whitespace THEN Tokens(Tail(command))
    ELSE LET rest == Tokens(Tail(command))
         IN  IF Len(command) > 1 /\ command[2] \notin Whitespace
                 THEN << <<Head(command)>> \o Head(rest) >> \o Tail(rest)
             ELSE << <<Head(command)>> >> \o rest

\* Variant: the allow-list is looked up anywhere among the tokens.
FirstCommandAllowed_AnyToken(command) ==
    \E k \in 1 .. Len(Tokens(command)) : Tokens(command)[k] \in { <<c>> : c \in AllowedCommands }

\* first_command in ["curl", "wget"], for a command that is not blank
FirstCommandAllowed(command) ==
    Head(Tokens(command)) \in { <<c>> : c \in AllowedCommands }

\* `command` is the command string, a sequence of fragments.  The commands of
\* the model are shorter than 30 characters, so command[:30] is the command.
\* subprocess.run gets the string as it was given, with shell=True.
run_command(arguments, fs, env) ==
    LET command == arguments.command
    IN  IF Tokens(command) = << >>
            THEN Returns(Failed(<<"NO_COMMAND_GIVEN">>), fs)
        ELSE IF ~FirstCommandAllowed(command)
            THEN Returns(Failed(<<"CURL_OR_WGET_CANNOT_BE_USED">>), fs)
        ELSE LET notice == <<"RUNNING_COMMAND:">> \o command
                 output ==
                     IF env = "ok" THEN <<"<success>\n", "stdout", "\n</success>">>
                     ELSE IF env = "nonzero"
                         THEN Failed(<<"EXIT_CODE: ", "1", "\nSTDOUT:\n", "stdout",
                                       "\nSTDERR:\n", "stderr">>)
                     ELSE Failed(<<"ERROR_OCCURRED:\n", "OSError">>)
             IN  [Effect(FALSE, output, << >>, <<notice>>, fs, << >>)
                     EXCEPT !.subprocess = <<command>>]

report_to_user(arguments, fs) ==
    Effect(FALSE, <<"SENT_THE_FOLLOWING_MESSAGE\n\n">> \o arguments.message \o <<"\n">>,
           << >>, <<arguments.message>>, fs, << >>)

ask_to_user(arguments, fs) ==
    Effect(FALSE, <<"[PENDING]">>, << >>, <<arguments.message>>, fs, << >>)

\* A2AMessenger.send is a coroutine function, so the first branch is the one taken.
complete(arguments, fs) ==
    Effect(FALSE, <<None>>, <<arguments.message>>, << >>, fs, << >>)

search(arguments, fs, env) ==
    IF env = "ok"
        THEN Returns(<<"<reference>", "title", "desc", "snippet", "link", "</reference>\n">>, fs)
    ELSE IF env = "empty"
        THEN Returns(<<"<query>">> \o arguments.query \o <<"</query>\n", "NO_SEARCH_RESULTS">>, fs)
    ELSE Returns(<<"Error searching Google: ", "SearchError">>, fs)

\* The notice is sent with an awaited messenger.send before the page is fetched,
\* so it is sent also when the fetch or the inference call raises afterwards.
infer_knowledge_by_url(arguments, fs, env) ==
    LET notice == arguments.url \o <<"_FETCH_AND_EXTRACT_">> \o arguments.what_to_search
    IN  IF env = "ok"
            THEN Effect(FALSE, <<"knowledge">>, <<notice>>, << >>, fs, << >>)
        ELSE Effect(TRUE, <<"FetchError">>, <<notice>>, << >>, fs, << >>)

\* refine_task is a nested function whose first parameter is named self: the
\* caller has to pass it by keyword, and it then hides the ToolCaller.  The
\* arguments of a tool call are JSON values, none of which has a `client`
\* attribute, so evaluating self.client raises before the nested inference
\* call is made.
refine_task(arguments, fs) ==
    Raises(<<"AttributeError: object has no attribute 'client'">>, fs)

\* self.tools / self.available_functions: tool name -> parameter names.
Parameters ==
    [read_file |-> {"file_path"},
     write_file |-> {"file_path", "content"},
     run_command |-> {"command"},
     report_to_user |-> {"message"},
     ask_to_user |-> {"message"},
     complete |-> {"message"},
     search |-> {"query", "augmented_query1", "augmented_query2"},
     infer_knowledge_by_url |-> {"url", "what_to_search"},
     refine_task |-> {"self", "current_task", "context"}]

available_functions == DOMAIN Parameters

\* function_to_call(**arguments): Python binds the keywords to the parameters
\* (none has a default) and raises TypeError when they do not match; otherwise
\* the body runs.
Call(function_name, arguments, fs, env) ==
    IF DOMAIN arguments # Parameters[function_name]
        THEN Raises(<<"TypeError: ", function_name, "() unexpected or missing argument">>, fs)
    ELSE CASE function_name = "read_file" -> read_file(arguments, fs)
           [] function_name = "write_file" -> write_file(arguments, fs)
           [] function_name = "run_command" -> run_command(arguments, fs, env)
           [] function_name = "report_to_user" -> report_to_user(arguments, fs)
           [] function_name = "ask_to_user" -> ask_to_user(arguments, fs)
           [] function_name = "complete" -> complete(arguments, fs)
           [] function_name = "search" -> search(arguments, fs, env)
           [] function_name = "infer_knowledge_by_url" ->
                  infer_knowledge_by_url(arguments, fs, env)
           [] function_name = "refine_task" -> refine_task(arguments, fs)

(***************************************************************************)
(* ToolCaller.action.                                                      *)
(***************************************************************************)
\* The streak of turns without a tool at which action() ends the task.
NoToolLimit == 3

\* Variant: the limit compared with > instead of >=.
NoToolLimitReached_Strict(n) == n > NoToolLimit

\* if self.no_tool_count >= 3
NoToolLimitReached(n) == n >= NoToolLimit

\* Variant: the counter is not set back when a tool is chosen.
NextNoToolCount_NoReset(function_name, n) == IF function_name = None THEN n + 1 ELSE n

\* Variant: a name that is not registered counts as a turn without a tool.
NextNoToolCount_CountsUnregistered(function_name, n) ==
    IF function_name = None \/ function_name \notin {"read_file", "write_file",
           "run_command", "report_to_user", "ask_to_user", "complete", "search",
           "infer_knowledge_by_url", "refine_task"}
        THEN n + 1
    ELSE 0

\* self.no_tool_count += 1 when select_tool chose no tool, = 0 when it chose a
\* name (registered or not).
NextNoToolCount(function_name, n) == IF function_name = None THEN n + 1 ELSE 0

\* function_to_call(message=complete_message) without await: calling the
\* coroutine function `complete` builds a coroutine object that nobody runs,
\* so no line of its body is executed.
UnawaitedCall(function_name, arguments, fs) == Returns(<<"coroutine">>, fs)

\* What action() returns: AgentLocalState(messages, current_task), wait_for_user, done
Return(msgs, task, wait, isDone) ==
    [messages |-> msgs, current_task |-> task, wait_for_user |-> wait, done |-> isDone]

\* The forced end of the task: nothing is appended.
ForcedReturn(copy_messages, task) == Return(copy_messages, task, TRUE, TRUE)

\* Variant: the nudge is appended as a system message.
NudgeReturn_SystemNudge(copy_messages, task, text) ==
    LET all_messages == IF text = << >> THEN NoToolPlaceholder ELSE text
    IN  Return(copy_messages \o << Message("assistant", all_messages),
                                   Message("system", Nudge(task)) >>,
               task, FALSE, FALSE)

\* Variant: an empty text is appended as it is, without the placeholder.
NudgeReturn_NoPlaceholder(copy_messages, task, text) ==
    Return(copy_messages \o << Message("assistant", text),
                               Message("user", Nudge(task)) >>,
           task, FALSE, FALSE)

\* A turn without a tool below the limit.
NudgeReturn(copy_messages, task, text) ==
    LET all_messages == IF text = << >> THEN NoToolPlaceholder ELSE text
    IN  Return(copy_messages \o << Message("assistant", all_messages),
                                   Message("user", Nudge(task)) >>,
               task, FALSE, FALSE)

\* Variant: the value the tool returned is appended instead of its argument.
AskReturn_ToolOutput(copy_messages, task, arguments) ==
    Return(Append(copy_messages, Message("assistant", <<"[PENDING]">>)),
           task, TRUE, FALSE)

AskReturn(copy_messages, task, arguments) ==
    Return(Append(copy_messages, Message("assistant", arguments.message)),
           task, TRUE, FALSE)

CompleteReturn(copy_messages, task) ==
    Return(Append(copy_messages, Message("assistant", CompletedNote(task))),
           task, TRUE, TRUE)

RefineReturn(copy_messages, refined) ==
    Return(Append(copy_messages, Message("assistant", TaskUpdatedNote)),
           refined, FALSE, FALSE)

\* Variant: the result is appended before the announcement.
Fallthrough_ResultFirst(copy_messages, task, function_name, results) ==
    Return(copy_messages \o << Message("user", results),
                               Message("assistant", Announcement(function_name)) >>,
           task, FALSE, FALSE)

\* The end of action(), reached by a dispatched tool, by a tool that raised
\* and by a name that is not registered.
Fallthrough(copy_messages, task, function_name, results) ==
    Return(copy_messages \o << Message("assistant", Announcement(function_name)),
                               Message("user", results) >>,
           task, FALSE, FALSE)

\* Variant: the failure text is not stored in `results`.
ExceptReturn_NoResults(copy_messages, task, function_name, e) ==
    Fallthrough(Append(copy_messages, Message("assistant", FailureNote(e))),
                task, function_name, << >>)

\* except Exception as e
ExceptReturn(copy_messages, task, function_name, e) ==
    Fallthrough(Append(copy_messages, Message("assistant", FailureNote(e))),
                task, function_name, Failed(e))

\* Variant: no copy is made, the list of the given state is the one appended to.
ListCopy_Shared(list) == [items |-> list, shared |-> TRUE]

\* list.copy(): a new list with the same items; appending to it leaves the
\* list it was copied from as it is.
ListCopy(list) == [items |-> list, shared |-> FALSE]

\* One call of action(state) with the outcome `turn` of select_tool and of the
\* outside world: what it returns (ret), the new no_tool_count, the branch
\* taken (kind), what the tool call did (effect) and the state it was given
\* as that state is after the call (state_after): action() assigns to no
\* field of `state`, and it appends to copy_messages only.
action(state, count, turn, fs) ==
    LET copied == ListCopy(state.messages)
        copy_messages == copied.items
        task == state.current_task
        function_name == turn.function_name
        arguments == turn.arguments
        n == NextNoToolCount(function_name, count)
        Out(ret, kind, eff) ==
            [ret |-> ret, no_tool_count |-> n, kind |-> kind, effect |-> eff,
             state_after |-> IF copied.shared
                                 THEN [state EXCEPT !.messages = ret.messages]
                             ELSE state]
    IN  IF function_name = None
            THEN IF NoToolLimitReached(n)
                     THEN Out(ForcedReturn(copy_messages, task), "forced",
                              UnawaitedCall("complete", [message |-> complete_message], fs))
                 ELSE Out(NudgeReturn(copy_messages, task, turn.all_messages), "nudge",
                          Returns(<< >>, fs))
        ELSE IF function_name \notin available_functions
            THEN Out(Fallthrough(copy_messages, task, function_name, << >>),
                     "unregistered", Returns(<< >>, fs))
        ELSE LET eff == Call(function_name, arguments, fs, turn.env)
             IN  IF eff.raised
                     THEN Out(ExceptReturn(copy_messages, task, function_name, eff.output),
                              "raised", eff)
                 ELSE IF function_name = "ask_to_user"
                     THEN Out(AskReturn(copy_messages, task, arguments), "ask", eff)
                 ELSE IF function_name = "complete"
                     THEN Out(CompleteReturn(copy_messages, task), "complete", eff)
                 ELSE IF function_name = "refine_task"
                     THEN Out(RefineReturn(copy_messages, eff.output), "refine", eff)
                 ELSE Out(Fallthrough(copy_messages, task, function_name,
                                      ResultText(function_name, eff.output, task)),
                          "tool", eff)

(***************************************************************************)
(* The state of one request, as SearchServiceAgent.handle_search builds    *)
(* it: a new A2AMessenger, a new ToolCaller, the log [system, user(query)] *)
(* and the query as the task.                                              *)
(***************************************************************************)
query == <<"q1">>

\* The threads of the Slack workspace (thread_ts values).
Threads == {"t1", "t2"}

\* The Slack bot when the process has started: defaultdict(bool),
\* ASCII stand-in for the Japanese keyword of a recipe request.
RecipeKeyword == "RECIPE"

\* ASCII stand-in for the Japanese recipe prompt of _construct_initial_system_prompt.
RecipePrompt == <<"RECIPE_EXPERT_PROMPT">>

\* ASCII stand-in for the Japanese base prompt that handle_app_mention passes.
base_system_prompt == <<"BASE_AGENT_PROMPT">>

\* SYSTEM_PROMPT_RULES as the module defines it: the recipe rule and the
\* default rule, whose condition is the empty string.  A condition is a text,
\* the sequence of its fragments.
InitialRules ==
    << [condition |-> <<RecipeKeyword>>, prompt_template |-> RecipePrompt],
       [condition |-> << >>, prompt_template |-> base_system_prompt] >>

\* sys.stdout and sys.stderr when the process starts.
OriginalSys == [stdout |-> "<stdout>", stderr |-> "<stderr>"]

\* execute_python_code not called yet.
NoExec ==
    [op |-> "none", code_string |-> << >>, raised |-> FALSE, e |-> "",
     result |-> [stdout |-> << >>, stderr |-> << >>],
     sys_before |-> OriginalSys, sys_after |-> OriginalSys]

\* No memory function called yet.
NoCall ==
    [op |-> "none", calls |-> << >>, limit |-> 0, base_prompt |-> << >>,
     is_recipe |-> FALSE, recent_memories |-> << >>, reads |-> 0, result |-> << >>]

\* defaultdict(list), no event handled yet, and the table that init_db
\* created, without rows.
SlackInit ==
    /\ _search_mode_state = [t \in Threads |-> FALSE]
    /\ _messages = [t \in Threads |-> << >>]
    /\ handlers = << >>
    /\ memories = { }
    /\ db_last = NoCall
    /\ SYSTEM_PROMPT_RULES = InitialRules
    /\ sys = OriginalSys
    /\ python_last = NoExec

\* search_tools when the module is imported, in a directory without cache
\* files; no call yet.
CacheInit ==
    /\ URL_CONTENT_CACHE = { }
    /\ BLACKLIST_DOMAINS = { }
    /\ url_cache_pkl = << >>
    /\ blacklist_pkl = << >>
    /\ cache_calls = << >>

AgentInit ==
    /\ messages = Append(MessageInit, Message("user", query))
    /\ current_task = query
    /\ no_tool_count = 0
    /\ wait_for_user = FALSE
    /\ done = FALSE
    /\ final_response = None
    /\ response_ready = FALSE
    /\ scheduled = << >>
    /\ files = InitialFiles
    /\ prev = [messages |-> Append(MessageInit, Message("user", query)),
               current_task |-> query]
    /\ last = [kind |-> "init", function_name |-> None, arguments |-> None,
               all_messages |-> << >>, raised |-> FALSE, output |-> << >>,
               direct |-> << >>, queued |-> << >>, open_calls |-> << >>,
               subprocess |-> << >>, count_before |-> 0,
               state_after |-> [messages |-> Append(MessageInit, Message("user", query)),
                                current_task |-> query]]
    /\ trace = << >>
    /\ requests = << >>
    /\ selection = [pc |-> "idle", stream |-> << >>,
                    result |-> [function_name |-> None, arguments |-> None,
                                all_messages |-> None]]

\* The search agent serves with the Slack bot at rest; MEMORY_FEATURE_ENABLED
\* is "false" unless the environment sets it.
Init ==
    /\ AgentInit
    /\ SlackInit
    /\ CacheInit
    /\ MEMORY_FEATURE_ENABLED = FALSE

\* A2AMessenger.send: the latest message is the response.
Send(m) ==
    /\ final_response' = m
    /\ response_ready' = TRUE

\* The caller keeps what action() returned (r.ret); what the call did is in
\* the messenger, the event loop and the file system, and in the history.
Keep(turn, r) ==
    /\ messages' = r.ret.messages
    /\ current_task' = r.ret.current_task
    /\ wait_for_user' = r.ret.wait_for_user
    /\ done' = r.ret.done
    /\ no_tool_count' = r.no_tool_count
    /\ files' = r.effect.files
    /\ scheduled' = scheduled \o r.effect.queued
    /\ IF r.effect.direct = << >>
           THEN UNCHANGED <<final_response, response_ready>>
       ELSE Send(Last(r.effect.direct))
    /\ prev' = [messages |-> messages, current_task |-> current_task]
    /\ last' = [kind |-> r.kind, function_name |-> turn.function_name,
                arguments |-> turn.arguments, all_messages |-> turn.all_messages,
                raised |-> r.effect.raised, output |-> r.effect.output,
                direct |-> r.effect.direct, queued |-> r.effect.queued,
                open_calls |-> r.effect.open_calls,
                subprocess |-> r.effect.subprocess, count_before |-> no_tool_count,
                state_after |-> r.state_after]
    /\ trace' = Append(trace, [kind |-> r.kind, function_name |-> turn.function_name,
                               all_messages |-> turn.all_messages,
                               wait_for_user |-> r.ret.wait_for_user,
                               done |-> r.ret.done])
    /\ UNCHANGED <<requests, slack_vars>>

\* The caller awaits action() on the state it holds and keeps what it returns.
Action(turn) ==
    /\ Keep(turn, action([messages |-> messages, current_task |-> current_task],
                         no_tool_count, turn, files))
    /\ UNCHANGED selection

\* The event loop runs a send() coroutine that a synchronous tool handed to
\* run_coroutine_threadsafe; it can do so whenever the task is suspended.
Deliver ==
    /\ scheduled # << >>
    /\ Send(Head(scheduled))
    /\ scheduled' = Tail(scheduled)
    /\ UNCHANGED <<messages, current_task, no_tool_count, wait_for_user, done,
                   files, prev, last, trace, requests, selection, slack_vars>>

(***************************************************************************)
(* The outcomes of select_tool and of the outside world for one turn.      *)
(***************************************************************************)
Turn(function_name, arguments, all_messages, env) ==
    [function_name |-> function_name, arguments |-> arguments,
     all_messages |-> all_messages, env |-> env]

\* What select_tool returns as text when no tool is chosen: free text, the
\* empty string, or the failure text of an inference call that raised.
SelectorTexts == { <<"t1">>, << >>, Failed(<<"InferenceError">>) }

\* Arguments for a tool with the one parameter `message`: as declared, and
\* with a keyword the function does not have.
MessageArguments == { [message |-> <<"m1">>], [message |-> <<"m1">>, extra |-> <<"x">>] }

\* The two arguments the tool is documented with.
RefineArguments == [current_task |-> <<"q1">>, context |-> <<"ctx">>]

\* /w/f, a file in the working directory.
InsidePath == [abs |-> TRUE, parts |-> <<"w", "f">>]

Components == {"w", "f", "s", "..", "."}

RECURSIVE SeqsUpTo(_, _)
SeqsUpTo(S, n) ==
    IF n = 0 THEN { << >> }
    ELSE LET shorter == SeqsUpTo(S, n - 1)
         IN  shorter \cup { Append(q, c) : q \in shorter, c \in S }

\* Every path of at most MaxPathLen components, from the root and relative.
AbsolutePaths == { [abs |-> TRUE, parts |-> q] : q \in SeqsUpTo(Components, MaxPathLen) }

RelativePaths == { [abs |-> FALSE, parts |-> q] : q \in SeqsUpTo(Components, MaxPathLen) }

UnregisteredNames == { "list_files" }

NoToolTurn ==
    /\ Len(trace) < MaxTurns
    /\ \E text \in SelectorTexts : Action(Turn(None, None, text, "ok"))

AskToUserTurn ==
    /\ Len(trace) < MaxTurns
    /\ \E args \in MessageArguments : Action(Turn("ask_to_user", args, << >>, "ok"))

CompleteTurn ==
    /\ Len(trace) < MaxTurns
    /\ \E args \in MessageArguments : Action(Turn("complete", args, << >>, "ok"))

RefineTaskTurn ==
    /\ Len(trace) < MaxTurns
    /\ Action(Turn("refine_task", RefineArguments, << >>, "ok"))

ReportToUserTurn ==
    /\ Len(trace) < MaxTurns
    /\ Action(Turn("report_to_user", [message |-> <<"m2">>], << >>, "ok"))

ReadFileTurn ==
    /\ Len(trace) < MaxTurns
    /\ Action(Turn("read_file", [file_path |-> InsidePath], << >>, "ok"))

InferKnowledgeTurn ==
    /\ Len(trace) < MaxTurns
    /\ \E env \in {"ok", "raise"} :
           Action(Turn("infer_knowledge_by_url",
                       [url |-> <<"u">>, what_to_search |-> <<"k">>], << >>, env))

UnregisteredTurn ==
    /\ Len(trace) < MaxTurns
    /\ \E name \in UnregisteredNames : Action(Turn(name, [path |-> <<"p">>], << >>, "ok"))

\* One turn of the orchestration: the outcomes without a tool, the three
\* tools action() treats specially, a name that is not registered, and the
\* ordinary dispatch with a synchronous tool (read_file), a notifying one
\* (report_to_user) and an awaited one that can raise (infer_knowledge_by_url).
Next ==
    \/ NoToolTurn
    \/ AskToUserTurn
    \/ CompleteTurn
    \/ RefineTaskTurn
    \/ UnregisteredTurn
    \/ ReportToUserTurn
    \/ ReadFileTurn
    \/ InferKnowledgeTurn
    \/ Deliver

Spec == Init /\ [][Next]_vars

\* The file tools alone, on every path of the bound.
FileToolCalls(p) ==
    \/ Action(Turn("read_file", [file_path |-> p], << >>, "ok"))
    \/ Action(Turn("write_file", [file_path |-> p, content |-> <<"c2">>], << >>, "ok"))

FileToolTurn ==
    /\ Len(trace) < MaxFileTurns
    /\ \/ \E p \in AbsolutePaths : FileToolCalls(p)
       \/ \E p \in RelativePaths : FileToolCalls(p)

NextFiles == FileToolTurn

SpecFiles == Init /\ [][NextFiles]_vars

\* run_command alone, on every command string of the bound, with a subprocess
\* that ends with the exit code zero or with another one.
CommandFragments == {"curl", "wget", "ls", " "}

Commands == SeqsUpTo(CommandFragments, MaxCommandLen)

RunCommandTurn ==
    /\ Len(trace) < MaxCommandTurns
    /\ \E command \in Commands, env \in {"ok", "nonzero"} :
           Action(Turn("run_command", [command |-> command], << >>, env))

NextCommands == RunCommandTurn

SpecCommands == Init /\ [][NextCommands]_vars

\* The six tools that action() dispatches in the ordinary way, each with the
\* answers of the outside world that its body tells apart.
ToolTurns ==
    { Turn("read_file", [file_path |-> InsidePath], << >>, "ok"),
      Turn("write_file", [file_path |-> InsidePath, content |-> <<"c2">>], << >>, "ok"),
      Turn("report_to_user", [message |-> <<"m2">>], << >>, "ok"),
      Turn("run_command", [command |-> <<"ls">>], << >>, "ok") }
    \cup { Turn("run_command", [command |-> <<"curl", " ", "ls">>], << >>, env) :
               env \in {"ok", "nonzero", "oserror"} }
    \cup { Turn("search", [query |-> <<"k">>, augmented_query1 |-> <<"k1">>,
                           augmented_query2 |-> <<"k2">>], << >>, env) :
               env \in {"ok", "empty", "error"} }
    \cup { Turn("infer_knowledge_by_url", [url |-> <<"u">>, what_to_search |-> <<"k">>],
                << >>, env) : env \in {"ok", "raise"} }

ToolTurn ==
    /\ Len(trace) < MaxToolTurns
    /\ \E turn \in ToolTurns : Action(turn)

NextTools ==
    \/ ToolTurn
    \/ Deliver

SpecTools == Init /\ [][NextTools]_vars

(***************************************************************************)
(* SearchServiceAgent.handle_search and agent_process_single_task.  Every  *)
(* request has its own A2AMessenger, ToolCaller and AgentLocalState, kept  *)
(* in one record of `requests`; the file system is the one of the process. *)
(* A request is suspended, and the event loop can run other things, only   *)
(* while it awaits select_tool (pc = "select_tool") or an awaited tool     *)
(* that does I/O (pc = "tool"); everything between two such points is one  *)
(* step.                                                                   *)
(***************************************************************************)
max_iterations == 10

ErrorBlocked == <<"Error: Task is blocked waiting for user input in A2A mode.">>

ErrorTimedOut == <<"Error: Task processing timed out", " after max iterations.">>

ErrorNullResponse == <<"Error: Agent generated a null response.">>

ErrorNoResponse ==
    <<"Error: Agent did not produce a final response or timed out without specific error.">>

\* "Error: Task processing timed out" in timeout_response
MentionsTimeout(text) == \E k \in 1 .. Len(text) : text[k] = ErrorTimedOut[1]

\* Variant: the first message sent stays the response.
SendTo_KeepsFirst(req, m) ==
    IF req.response_ready THEN req
    ELSE [req EXCEPT !.final_response = m, !.response_ready = TRUE]

\* A2AMessenger.send on the messenger of one request.
SendTo(req, m) == [req EXCEPT !.final_response = m, !.response_ready = TRUE]

\* Lines 603-616 of handle_search: what the requester gets.
Response(req) ==
    IF req.response_ready
        THEN IF req.final_response # None THEN req.final_response ELSE ErrorNullResponse
    ELSE IF req.final_response # None /\ MentionsTimeout(req.final_response)
        THEN req.final_response
    ELSE ErrorNoResponse

\* agent_process_single_task returns and handle_search returns: no await
\* between them.  `stop` is the way the loop was left.
Finish(req, stop) ==
    [req EXCEPT !.pc = "returned", !.stop = stop, !.response = Response(req)]

\* The `else` of the for loop: the timeout notice, unless a response is ready.
Exhausted(req) ==
    Finish(IF ~req.response_ready THEN SendTo(req, ErrorTimedOut) ELSE req, "exhausted")

\* The head of the for loop with the loop index req.i.
LoopTop(req) ==
    IF req.i >= max_iterations THEN Exhausted(req)
    ELSE IF req.response_ready THEN Finish(req, "ready")
    ELSE [req EXCEPT !.pc = "select_tool"]

\* Lines 203-214, after action() returned, and the step to the next index.
AfterAction(req) ==
    IF req.done THEN Finish(req, "done")
    ELSE IF req.wait_for_user
        THEN Finish(IF ~req.response_ready THEN SendTo(req, ErrorBlocked) ELSE req, "paused")
    ELSE LoopTop([req EXCEPT !.i = @ + 1])

\* The tools whose body awaits I/O: the task is suspended inside them.
Suspends(turn) ==
    /\ turn.function_name \in {"search", "infer_knowledge_by_url"}
    /\ DOMAIN turn.arguments = Parameters[turn.function_name]

\* handle_search up to the first await: the new messenger, ToolCaller and
\* AgentLocalState, and the first pass through the head of the loop.
NewRequest(q) ==
    LoopTop([query |-> q,
             messages |-> Append(MessageInit, Message("user", q)),
             current_task |-> q,
             no_tool_count |-> 0,
             final_response |-> None,
             response_ready |-> FALSE,
             scheduled |-> << >>,
             i |-> 0,
             pc |-> "handle_search",
             wait_for_user |-> FALSE,
             done |-> FALSE,
             stop |-> None,
             response |-> None,
             turns |-> << >>,
             events |-> << >>])

\* The request after action() did `r`: what it returned is kept, what it sent
\* has reached the messenger or the event loop.
Applied(req, turn, r) ==
    LET sent == IF r.effect.direct = << >> THEN req
                ELSE SendTo(req, Last(r.effect.direct))
        after == [sent EXCEPT !.messages = r.ret.messages,
                              !.current_task = r.ret.current_task,
                              !.no_tool_count = r.no_tool_count,
                              !.wait_for_user = r.ret.wait_for_user,
                              !.done = r.ret.done,
                              !.scheduled = @ \o r.effect.queued,
                              !.turns = Append(@, [kind |-> r.kind,
                                                   function_name |-> turn.function_name,
                                                   arguments |-> turn.arguments,
                                                   wait_for_user |-> r.ret.wait_for_user,
                                                   done |-> r.ret.done,
                                                   direct |-> r.effect.direct,
                                                   queued |-> r.effect.queued])]
    IN  [req |-> IF Suspends(turn) THEN [after EXCEPT !.pc = "tool"] ELSE AfterAction(after),
         files |-> r.effect.files]

\* select_tool answered: the rest of action(), up to the next await.
RunAction(req, turn, fs) ==
    Applied(req, turn,
            action([messages |-> req.messages, current_task |-> req.current_task],
                   req.no_tool_count, turn, fs))

\* The event loop runs the oldest send() that a tool of the request handed
\* to run_coroutine_threadsafe.
RunScheduled(req) ==
    [SendTo(req, Head(req.scheduled)) EXCEPT !.scheduled = Tail(req.scheduled)]

\* What happens to one request: select_tool answers with `turn` while the
\* file system is `fs`, the awaited tool returns, or a scheduled send is run.
\* `events` is the history of what happened to the request.
TurnEvent(turn, fs) == [type |-> "turn", turn |-> turn, fs |-> fs]

ToolReturnsEvent == [type |-> "tool_returns", turn |-> None, fs |-> << >>]

DeliverEvent == [type |-> "deliver", turn |-> None, fs |-> << >>]

Step(req, e) ==
    LET to == CASE e.type = "turn" -> RunAction(req, e.turn, e.fs).req
                [] e.type = "tool_returns" -> AfterAction(req)
                [] e.type = "deliver" -> RunScheduled(req)
    IN  [to EXCEPT !.events = Append(req.events, e)]

caller_vars == <<messages, current_task, no_tool_count, wait_for_user, done,
                 final_response, response_ready, scheduled, prev, last, trace,
                 selection, slack_vars>>

\* Variant: the ToolCaller and the messenger are made once and the new request
\* goes on with those of the request before it.
HandleSearch_SharedToolCaller(q) ==
    /\ requests' = Append(requests,
                          IF requests = << >> THEN NewRequest(q)
                          ELSE LoopTop([NewRequest(q) EXCEPT
                                   !.no_tool_count = Last(requests).no_tool_count,
                                   !.final_response = Last(requests).final_response,
                                   !.response_ready = Last(requests).response_ready]))
    /\ UNCHANGED <<caller_vars, files>>

\* A request arrives.
HandleSearch(q) ==
    /\ requests' = Append(requests, NewRequest(q))
    /\ UNCHANGED <<caller_vars, files>>

\* Request r gets the answer of select_tool.
RequestTurn(r, turn) ==
    /\ requests[r].pc = "select_tool"
    /\ requests' = [requests EXCEPT ![r] = Step(@, TurnEvent(turn, files))]
    /\ files' = RunAction(requests[r], turn, files).files
    /\ UNCHANGED caller_vars

\* The awaited tool of request r returns.
ToolReturns(r) ==
    /\ requests[r].pc = "tool"
    /\ requests' = [requests EXCEPT ![r] = Step(@, ToolReturnsEvent)]
    /\ UNCHANGED <<caller_vars, files>>

\* The event loop runs a send() that a tool of request r handed to
\* run_coroutine_threadsafe; it can do so while the request is suspended.
RequestDeliver(r) ==
    /\ requests[r].pc \in {"select_tool", "tool"}
    /\ requests[r].scheduled # << >>
    /\ requests' = [requests EXCEPT ![r] = Step(@, DeliverEvent)]
    /\ UNCHANGED <<caller_vars, files>>

\* One request, with the outcomes of a turn that matter to the driver: no
\* tool, the pausing and the ending tool, a tool that sends nothing
\* (read_file), one that sends through run_coroutine_threadsafe
\* (report_to_user) and one that awaits its send (infer_knowledge_by_url).
DriverTurns ==
    { Turn(None, None, <<"t1">>, "ok"),
      Turn("ask_to_user", [message |-> <<"m0">>], << >>, "ok"),
      Turn("complete", [message |-> <<"m1">>], << >>, "ok"),
      Turn("report_to_user", [message |-> <<"m2">>], << >>, "ok"),
      Turn("read_file", [file_path |-> InsidePath], << >>, "ok"),
      Turn("infer_knowledge_by_url", [url |-> <<"u">>, what_to_search |-> <<"k">>],
           << >>, "ok") }

DriverHandleSearch ==
    /\ requests = << >>
    /\ HandleSearch(query)

DriverTurn == \E r \in DOMAIN requests, turn \in DriverTurns : RequestTurn(r, turn)

DriverToolReturns == \E r \in DOMAIN requests : ToolReturns(r)

DriverDeliver == \E r \in DOMAIN requests : RequestDeliver(r)

NextDriver ==
    \/ DriverHandleSearch
    \/ DriverTurn
    \/ DriverToolReturns
    \/ DriverDeliver

SpecDriver == Init /\ [][NextDriver]_vars

\* One request whose tools are given the messages a model can produce: a
\* text, the empty string and null.
ResponseTurns ==
    << Turn(None, None, <<"t1">>, "ok"),
       Turn("complete", [message |-> <<"m1">>], << >>, "ok"),
       Turn("complete", [message |-> << >>], << >>, "ok"),
       Turn("complete", [message |-> None], << >>, "ok"),
       Turn("report_to_user", [message |-> << >>], << >>, "ok"),
       Turn("ask_to_user", [message |-> << >>], << >>, "ok"),
       Turn("read_file", [file_path |-> InsidePath], << >>, "ok") >>

ResponseHandleSearch ==
    /\ requests = << >>
    /\ HandleSearch(query)

ResponseTurn ==
    \E r \in DOMAIN requests, k \in DOMAIN ResponseTurns :
        /\ Len(requests[r].turns) < MaxResponseTurns
        /\ RequestTurn(r, ResponseTurns[k])

ResponseDeliver == \E r \in DOMAIN requests : RequestDeliver(r)

NextResponse ==
    \/ ResponseHandleSearch
    \/ ResponseTurn
    \/ ResponseDeliver

SpecResponse == Init /\ [][NextResponse]_vars

\* Requests served concurrently by the one event loop: a new request can
\* arrive, and any suspended request can go on, at every step.
Queries == << <<"q1">>, <<"q2">> >>

\* The query of the k-th request: the two queries in turn.
QueryOf(k) == Queries[((k - 1) % Len(Queries)) + 1]

ConcurrentTurns ==
    { Turn(None, None, <<"t1">>, "ok"),
      Turn("complete", [message |-> <<"m1">>], << >>, "ok"),
      Turn("report_to_user", [message |-> <<"m2">>], << >>, "ok"),
      Turn("read_file", [file_path |-> InsidePath], << >>, "ok"),
      Turn("write_file", [file_path |-> InsidePath, content |-> <<"c2">>], << >>, "ok"),
      Turn("infer_knowledge_by_url", [url |-> <<"u">>, what_to_search |-> <<"k">>],
           << >>, "ok") }

ConcurrentHandleSearch ==
    /\ Len(requests) < MaxRequests
    /\ HandleSearch(QueryOf(Len(requests) + 1))

ConcurrentTurn ==
    \E r \in DOMAIN requests, turn \in ConcurrentTurns :
        /\ Len(requests[r].turns) < MaxRequestTurns
        /\ RequestTurn(r, turn)

ConcurrentToolReturns == \E r \in DOMAIN requests : ToolReturns(r)

ConcurrentDeliver == \E r \in DOMAIN requests : RequestDeliver(r)

NextConcurrent ==
    \/ ConcurrentHandleSearch
    \/ ConcurrentTurn
    \/ ConcurrentToolReturns
    \/ ConcurrentDeliver

SpecConcurrent == Init /\ [][NextConcurrent]_vars

(***************************************************************************)
(* select_tool.  The stream of client.chat is a sequence of parts; a part  *)
(* has a text (content, possibly empty) and tool calls (possibly none), or *)
(* it is the point at which reading the stream raises.  The marker         *)
(* "</think>" is the two fragments "</" and "think>", so that it can come  *)
(* in two parts of the stream; " " is a run of white space.                *)
(***************************************************************************)
ThinkEnd == <<"</", "think>">>

\* Variant: the text before the first marker is kept, split(...)[0].
SplitLast_First(text) ==
    LET at == { k \in 1 .. (Len(text) - 1) : SubSeq(text, k, k + 1) = ThinkEnd }
    IN  IF at = { } THEN text
        ELSE SubSeq(text, 1, (CHOOSE k \in at : \A j \in at : k <= j) - 1)

\* all_message.split('</think>')[-1]: what follows the last marker, the whole
\* text when there is no marker.
SplitLast(text) ==
    LET at == { k \in 1 .. (Len(text) - 1) : SubSeq(text, k, k + 1) = ThinkEnd }
    IN  IF at = { } THEN text
        ELSE SubSeq(text, (CHOOSE k \in at : \A j \in at : k >= j) + 2, Len(text))

\* str.strip(): the white space at both ends is removed.
RECURSIVE strip(_)
strip(text) ==
    IF text = << >> THEN text
    ELSE IF Head(text) \in Whitespace THEN strip(Tail(text))
    ELSE IF Last(text) \in Whitespace THEN strip(SubSeq(text, 1, Len(text) - 1))
    ELSE text

\* What select_tool returns: function_name, arguments, all_message.
Selected(function_name, arguments, all_messages) ==
    [function_name |-> function_name, arguments |-> arguments,
     all_messages |-> all_messages]

\* Variant: a part at which reading raises is passed over.
RECURSIVE SelectLoop_SkipsFailure(_, _)
SelectLoop_SkipsFailure(parts, all_message) ==
    IF parts = << >> THEN Selected(None, None, strip(SplitLast(all_message)))
    ELSE LET part == Head(parts)
         IN  IF part.raises THEN SelectLoop_SkipsFailure(Tail(parts), all_message)
             ELSE IF part.tool_calls # << >>
                 THEN Selected(part.tool_calls[1].function.name,
                               part.tool_calls[1].function.arguments, None)
             ELSE SelectLoop_SkipsFailure(Tail(parts), all_message \o part.content)

\* The body of the `async for`, with the parts still to come and the text
\* gathered so far.
RECURSIVE SelectLoop(_, _)
SelectLoop(parts, all_message) ==
    IF parts = << >> THEN Selected(None, None, strip(SplitLast(all_message)))
    ELSE LET part == Head(parts)
         IN  IF part.raises THEN Selected(None, None, Failed(<<"StreamError">>))
             ELSE IF part.tool_calls # << >>
                 THEN Selected(part.tool_calls[1].function.name,
                               part.tool_calls[1].function.arguments, None)
             ELSE SelectLoop(Tail(parts), all_message \o part.content)

select_tool(stream) == SelectLoop(stream, << >>)

ToolCall(name, arguments) == [function |-> [name |-> name, arguments |-> arguments]]

Part(content, tool_calls) == [content |-> content, tool_calls |-> tool_calls, raises |-> FALSE]

\* Reading the stream raises here.
RaisingPart == [content |-> << >>, tool_calls |-> << >>, raises |-> TRUE]

\* The parts of the model: a text fragment, white space, each half of the
\* marker, a part without text, a part with two tool calls, a part with text
\* and a tool call, and the failure of the stream.
StreamParts ==
    { Part(<<c>>, << >>) : c \in {"a", " ", "</", "think>"} }
    \cup { Part(<< >>, << >>),
           Part(<< >>, << ToolCall("complete", [message |-> <<"m1">>]),
                          ToolCall("report_to_user", [message |-> <<"m2">>]) >>),
           Part(<<"a">>, << ToolCall("report_to_user", [message |-> <<"m2">>]) >>),
           RaisingPart }

Streams == SeqsUpTo(StreamParts, MaxStreamLen)

other_vars == <<messages, current_task, no_tool_count, wait_for_user, done,
                final_response, response_ready, scheduled, files, prev, last, trace,
                requests, slack_vars>>

\* client.chat(..., stream=True) answers with a stream.
Chat ==
    /\ selection.pc = "idle"
    /\ \E stream \in Streams : selection' = [selection EXCEPT !.pc = "streaming",
                                                              !.stream = stream]
    /\ UNCHANGED other_vars

\* select_tool reads the stream and returns.
SelectTool ==
    /\ selection.pc = "streaming"
    /\ selection' = [selection EXCEPT !.pc = "returned",
                                      !.result = select_tool(selection.stream)]
    /\ UNCHANGED other_vars

NextSelect ==
    \/ Chat
    \/ SelectTool

SpecSelect == Init /\ [][NextSelect]_vars

(***************************************************************************)
(* action() with its own call of select_tool: the inference call answers   *)
(* with a stream, select_tool reads it, and action() goes on with what     *)
(* select_tool returned.  `selection` keeps the stream of the latest turn. *)
(***************************************************************************)
\* The streams of a turn: the inference call raises before anything is
\* streamed, it raises after a text, it streams a text, it streams nothing,
\* it streams a text and then a tool call, and it streams a tool call (one
\* that notifies, one that pauses, one that ends the task).
AgentStreams ==
    { << RaisingPart >>,
      << Part(<<"a">>, << >>), RaisingPart >>,
      << Part(<<"a">>, << >>) >>,
      << >>,
      << Part(<<"a">>, << >>),
         Part(<< >>, << ToolCall("report_to_user", [message |-> <<"m2">>]) >>) >>,
      << Part(<< >>, << ToolCall("read_file", [file_path |-> InsidePath]) >>) >>,
      << Part(<< >>, << ToolCall("complete", [message |-> <<"m1">>]) >>) >> }

\* function_name, arguments, all_messages = await select_tool(...)
TurnOf(result, env) ==
    Turn(result.function_name, result.arguments, result.all_messages, env)

\* One call of action(): select_tool on the stream, then the rest of action().
AgentTurn ==
    /\ Len(trace) < MaxAgentTurns
    /\ \E stream \in AgentStreams :
           /\ selection' = [pc |-> "returned", stream |-> stream,
                            result |-> select_tool(stream)]
           /\ Keep(TurnOf(select_tool(stream), "ok"),
                   action([messages |-> messages, current_task |-> current_task],
                          no_tool_count, TurnOf(select_tool(stream), "ok"), files))

NextAgent ==
    \/ AgentTurn
    \/ Deliver

SpecAgent == Init /\ [][NextAgent]_vars

(***************************************************************************)
(* The memories table of the Slack bot (src/main.py).  A row is            *)
(* [thread_ts, timestamp, summary]; thread_ts is the primary key.  The     *)
(* database is the one init_db created and it can be opened and written.   *)
(***************************************************************************)
\* get_recent_memories(limit: int = 5)
DefaultLimit == 5

Row(thread_ts, timestamp, summary) ==
    [thread_ts |-> thread_ts, timestamp |-> timestamp, summary |-> summary]

\* Variant: a plain INSERT, without the ON CONFLICT clause and the key.
add_memory_PlainInsert(table, thread_ts, summary, current_time) ==
    table \cup { Row(thread_ts, current_time, summary) }

\* INSERT ... ON CONFLICT(thread_ts) DO UPDATE SET timestamp, summary: the row
\* of the thread is replaced, or added when the thread has none.
add_memory(table, thread_ts, summary, current_time) ==
    { row \in table : row.thread_ts # thread_ts }
        \cup { Row(thread_ts, current_time, summary) }

\* The orders in which SELECT ... ORDER BY timestamp DESC can give the rows:
\* every arrangement of all rows with no timestamp before a greater one (rows
\* with equal timestamps come in an order SQL leaves open).
RECURSIVE Arrangements(_)
Arrangements(rows) ==
    IF rows = { } THEN { << >> }
    ELSE UNION { { <<row>> \o rest : rest \in Arrangements(rows \ {row}) } :
                 row \in { r \in rows : \A o \in rows : o.timestamp <= r.timestamp } }

\* list.reverse()
RECURSIVE reverse(_)
reverse(list) ==
    IF list = << >> THEN << >>
    ELSE Append(reverse(Tail(list)), Head(list))

\* Variant: the rows are returned as selected, newest first.
Chronological_NotReversed(rows) == [k \in DOMAIN rows |-> rows[k].summary]

\* memories = [row[0] for row in rows]; memories.reverse()
Chronological(rows) == reverse([k \in DOMAIN rows |-> rows[k].summary])

\* Variant: LIMIT is not applied.
Limited_All(rows, limit) == rows

\* LIMIT ?: the first `limit` rows of the ordered selection; SQLite takes a
\* negative limit as no limit.
Limited(rows, limit) ==
    IF limit < 0 THEN rows
    ELSE SubSeq(rows, 1, IF limit < Len(rows) THEN limit ELSE Len(rows))

\* get_recent_memories(limit): the lists it can return on the table.
get_recent_memories(table, limit) ==
    { Chronological(Limited(rows, limit)) : rows \in Arrangements(table) }

\* "\n".join([f"- {mem}" for mem in recent_memories])
RECURSIVE formatted_memories(_)
formatted_memories(recent_memories) ==
    IF recent_memories = << >> THEN << >>
    ELSE <<"- ">> \o Head(recent_memories)
             \o (IF Len(recent_memories) > 1 THEN <<"\n">> ELSE << >>)
             \o formatted_memories(Tail(recent_memories))

memory_header ==
    <<"\n\n## Reference from Past Conversations (Summaries) - Use these lightly for context if relevant:\n">>

\* Variant: the header is appended also when there is no memory.
MemorySuffix_Always(recent_memories) ==
    memory_header \o formatted_memories(recent_memories)

\* if recent_memories: system_prompt_content += memory_header + formatted_memories
MemorySuffix(recent_memories) ==
    IF recent_memories # << >>
        THEN memory_header \o formatted_memories(recent_memories)
    ELSE << >>

\* _construct_initial_system_prompt(thread_ts, base_prompt, is_recipe) of
\* src/main.py, with the list get_recent_memories() gave when it was called:
\* the prompt, and how often the table was read (reads).
_construct_initial_system_prompt(base_prompt, is_recipe, memory_on, recent_memories) ==
    LET system_prompt_content == IF is_recipe THEN RecipePrompt ELSE base_prompt
    IN  IF memory_on
            THEN [prompt |-> system_prompt_content \o MemorySuffix(recent_memories),
                  reads |-> 1]
        ELSE [prompt |-> system_prompt_content, reads |-> 0]

(***************************************************************************)
(* handle_app_mention of the Slack bot.  It is a coroutine: it runs from   *)
(* one await to the next in one step.  A call is one record of `handlers`: *)
(* the event, where the coroutine stands (pc) and what it has done so far  *)
(* (acks, posts, chat_calls, a2a, appended) and been answered by the model *)
(* (res) and by the search agent (a2a_result).  The globals it reads and   *)
(* writes are passed as the record `w`.                                    *)
(***************************************************************************)
\* The search agent's variables, which the Slack bot does not touch.
agent_vars == <<messages, current_task, no_tool_count, wait_for_user, done,
                final_response, response_ready, scheduled, files, prev, last, trace,
                requests, selection>>

\* The module globals.
World ==
    [_search_mode_state |-> _search_mode_state, _messages |-> _messages,
     memories |-> memories, MEMORY_FEATURE_ENABLED |-> MEMORY_FEATURE_ENABLED,
     SYSTEM_PROMPT_RULES |-> SYSTEM_PROMPT_RULES]

\* body["event"]: thread_ts and text.
Event(thread_ts, text) == [thread_ts |-> thread_ts, text |-> text]

\* The call of handle_app_mention for an event, before its first line;
\* `before` is what the globals were then.
NewHandler(event, w) ==
    [event |-> event, pc |-> "start", acks |-> 0, posts |-> << >>,
     chat_calls |-> << >>, res |-> << >>, appended |-> << >>, a2a |-> << >>,
     connected |-> FALSE,
     a2a_result |-> [status |-> "none", e |-> << >>, content |-> << >>],
     assistant_message_content |-> << >>,
     before |-> [_search_mode_state |-> w._search_mode_state, _messages |-> w._messages,
                 SYSTEM_PROMPT_RULES |-> w.SYSTEM_PROMPT_RULES]]

\* A step of a handler: the handler and the globals after it.
HandlerOut(h, w) == [h |-> h, w |-> w]

\* await ack()
ack(h) == [h EXCEPT !.acks = @ + 1]

\* send(say, message, thread_ts): one message posted in the thread.
send(h, message, thread_ts) ==
    [h EXCEPT !.posts = Append(@, [thread_ts |-> thread_ts, text |-> message])]

\* The coroutine returns.
Finished(h) == [h EXCEPT !.pc = "returned"]

\* The fence that opens a python block and the one that closes it; the
\* three backquotes of a fence are written <fence>.
FenceOpen == "<fence>python\n"

FenceClose == "\n<fence>"

\* Variant: only the first block is extracted.
RECURSIVE extract_python_code_FirstOnly(_)
extract_python_code_FirstOnly(text) ==
    LET opens == { k \in 1 .. Len(text) : text[k] = FenceOpen }
        open == CHOOSE k \in opens : \A j \in opens : k <= j
        closes == { k \in 1 .. Len(text) : text[k] = FenceClose /\ k > open }
        close == CHOOSE k \in closes : \A j \in closes : k <= j
    IN  IF opens = { } THEN << >>
        ELSE IF closes = { } THEN << >>
        ELSE << strip(SubSeq(text, open + 1, close - 1)) >>

\* re.findall(r"<fence>python\s*\n(.*?)\n<fence>", text) with each match stripped: from
\* the first opening fence to the first closing fence after it, then on from
\* there.
RECURSIVE extract_python_code(_)
extract_python_code(text) ==
    LET opens == { k \in 1 .. Len(text) : text[k] = FenceOpen }
        open == CHOOSE k \in opens : \A j \in opens : k <= j
        closes == { k \in 1 .. Len(text) : text[k] = FenceClose /\ k > open }
        close == CHOOSE k \in closes : \A j \in closes : k <= j
    IN  IF opens = { } THEN << >>
        ELSE IF closes = { } THEN << >>
        ELSE << strip(SubSeq(text, open + 1, close - 1)) >>
                 \o extract_python_code(SubSeq(text, close + 1, Len(text)))

\* A code string is a sequence of statements.  "print(" is not a statement:
\* code that holds it does not compile.
Compiles(code_string) == \A k \in DOMAIN code_string : code_string[k] # "print("

\* exec(code_string) of code that compiles, statement by statement, with
\* `out` what the captures hold so far: print(1) writes to sys.stdout,
\* sys.stderr.write('w') to sys.stderr, 1/0 raises ZeroDivisionError and
\* sys.exit() raises SystemExit; any other statement writes nothing.
RECURSIVE exec(_, _)
exec(code_string, out) ==
    IF code_string = << >> THEN out
    ELSE CASE Head(code_string) = "print(1)" ->
                  exec(Tail(code_string), [out EXCEPT !.stdout = Append(@, "1\n")])
           [] Head(code_string) = "sys.stderr.write('w')" ->
                  exec(Tail(code_string), [out EXCEPT !.stderr = Append(@, "w")])
           [] Head(code_string) = "1/0" -> [out EXCEPT !.e = "ZeroDivisionError"]
           [] Head(code_string) = "sys.exit()" -> [out EXCEPT !.e = "SystemExit"]
           [] OTHER -> exec(Tail(code_string), out)

\* The classes `except Exception` catches: SystemExit is a BaseException
\* that is not an Exception.
IsException(e) == e \in {"ZeroDivisionError", "SyntaxError"}

\* finally: sys.stdout = original_stdout; sys.stderr = original_stderr
RestoreSys(system, original_stdout, original_stderr) ==
    [system EXCEPT !.stdout = original_stdout, !.stderr = original_stderr]

\* One call of execute_python_code(code_string) with sys as `system`:
\* whether it raised (and what, e), the dict it returned, and sys after it.
ExecutePythonCode(code_string, system) ==
    LET original_stdout == system.stdout
        original_stderr == system.stderr
        redirected == [system EXCEPT !.stdout = "stdout_capture",
                                     !.stderr = "stderr_capture"]
        empty == [stdout |-> << >>, stderr |-> << >>, e |-> ""]
        ran == IF Compiles(code_string) THEN exec(code_string, empty)
               ELSE [empty EXCEPT !.e = "SyntaxError"]
        after == RestoreSys(redirected, original_stdout, original_stderr)
    IN  IF ran.e = ""
            THEN [raised |-> FALSE, e |-> "",
                  result |-> [stdout |-> ran.stdout, stderr |-> ran.stderr], sys |-> after]
        ELSE IF IsException(ran.e)
            THEN [raised |-> FALSE, e |-> "",
                  result |-> [stdout |-> ran.stdout, stderr |-> <<"Traceback", ran.e>>],
                  sys |-> after]
        ELSE [raised |-> TRUE, e |-> ran.e,
              result |-> [stdout |-> << >>, stderr |-> << >>], sys |-> after]

\* The dict execute_python_code returns in handle_app_mention.
execute_python_code(code_string) == ExecutePythonCode(code_string, OriginalSys).result

\* json.dumps of the dict {"stdout": ..., "stderr": ...}
dumps(result) ==
    <<"{\"stdout\": \"">> \o result.stdout \o <<"\", \"stderr\": \"">>
        \o result.stderr \o <<"\"}">>

\* One line of the text for the summarizer.
HistoryLine(msg) ==
    IF msg.role = "tool" THEN <<"Tool Output: ">> \o msg.content
    ELSE <<IF msg.role = "user" THEN "User: " ELSE "Assistant: ">> \o msg.content

\* "\n".join of the lines of the messages that are not system messages.
RECURSIVE full_conversation_history_text(_)
full_conversation_history_text(history) ==
    IF history = << >> THEN << >>
    ELSE IF Head(history).role = "system"
        THEN full_conversation_history_text(Tail(history))
    ELSE HistoryLine(Head(history))
             \o (IF \E k \in 2 .. Len(history) : history[k].role # "system"
                     THEN <<"\n">> ELSE << >>)
             \o full_conversation_history_text(Tail(history))

\* The one message handed to the model for the summary.
summarization_messages(history) ==
    << Message("user", <<"You are a minute-taking assistant. ...",
                         "Conversation History:\n">>
                           \o full_conversation_history_text(history)) >>

\* The call of client.chat at the call site `call` with these messages.
ChatCall(call, msgs) == [call |-> call, messages |-> msgs]

\* Variant: the message posted is the reply of the first call.
Reply_PostsFirst(h, first, final) == send(h, first, h.event.thread_ts)

\* await send(say, assistant_message_content, thread_ts), the last line.
Reply(h, first, final) == send(h, final, h.event.thread_ts)

\* From the append of the final assistant message to the end, or to the
\* await of the summarizing call when the memory feature is on.  The copy
\* of the log made for the summary gets the latest reply appended once more.
Final(h, w, assistant_message_content) ==
    LET thread_ts == h.event.thread_ts
        log == Append(w._messages[thread_ts],
                      Message("assistant", assistant_message_content))
        kept == [h EXCEPT !.appended =
                              Append(@, Message("assistant", assistant_message_content)),
                          !.assistant_message_content = assistant_message_content]
        temp_history_for_summarization ==
            Append(log, Message("assistant", assistant_message_content))
    IN  HandlerOut(
            IF w.MEMORY_FEATURE_ENABLED
                   /\ full_conversation_history_text(temp_history_for_summarization) # << >>
                THEN [kept EXCEPT !.pc = "summary",
                                  !.chat_calls =
                                      Append(@, ChatCall("summary",
                                          summarization_messages(
                                              temp_history_for_summarization)))]
            ELSE Finished(Reply(kept, Head(kept.appended).content,
                                assistant_message_content)),
            [w EXCEPT !._messages[thread_ts] = log])

\* Variant: the tool messages are appended in reverse block order.
ToolMessages_Reversed(codes_to_execute) ==
    [k \in DOMAIN codes_to_execute |->
        Message("tool", dumps(execute_python_code(
            codes_to_execute[Len(codes_to_execute) + 1 - k])))]

\* for code_string in codes_to_execute: one tool message per block.
ToolMessages(codes_to_execute) ==
    [k \in DOMAIN codes_to_execute |->
        Message("tool", dumps(execute_python_code(codes_to_execute[k])))]

\* The first call of the model returned `content`: up to the second call
\* when the reply has python blocks, to Final otherwise.
FirstReply(h, w, content) ==
    LET thread_ts == h.event.thread_ts
        assistant_message_content == SplitLast(content)
        codes_to_execute == extract_python_code(assistant_message_content)
        added == << Message("assistant", assistant_message_content) >>
                     \o ToolMessages(codes_to_execute)
        log == w._messages[thread_ts] \o added
    IN  IF codes_to_execute # << >>
            THEN HandlerOut([h EXCEPT !.pc = "chat2",
                                      !.chat_calls = Append(@, ChatCall("second", log)),
                                      !.res = Append(@, content),
                                      !.appended = @ \o added],
                            [w EXCEPT !._messages[thread_ts] = log])
        ELSE Final([h EXCEPT !.res = Append(@, content)], w, assistant_message_content)

\* The second call of the model returned `content`.
SecondReply(h, w, content) ==
    Final([h EXCEPT !.res = Append(@, content)], w, SplitLast(content))

\* The summarizing call returned or raised; current_time is time.time() in
\* add_memory.
SummaryReply(h, w, raised, content, current_time) ==
    LET interaction_summary == strip(content)
    IN  HandlerOut(
            Finished(Reply(h, Head(h.appended).content, h.assistant_message_content)),
            IF ~raised /\ interaction_summary # << >>
                THEN [w EXCEPT !.memories = add_memory(@, h.event.thread_ts,
                                                       interaction_summary, current_time)]
            ELSE w)

\* body["event"].get("files"): the event has files.
HasFiles(event) == "files" \in DOMAIN event /\ event.files # << >>

\* Variant: the system message is appended whether or not the thread has a log.
Download_SystemAlways(h, w, final_system_prompt) ==
    LET thread_ts == h.event.thread_ts
        added == << Message("system", final_system_prompt) >>
    IN  HandlerOut([h EXCEPT !.pc = "download", !.appended = added],
                   [w EXCEPT !._messages[thread_ts] = @ \o added])

\* An event with files, from `if not _messages.get(thread_ts)` to the await of
\* download_and_encode_images: the system message of a thread without a log.
Download(h, w, final_system_prompt) ==
    LET thread_ts == h.event.thread_ts
        added == IF w._messages[thread_ts] = << >>
                     THEN << Message("system", final_system_prompt) >>
                 ELSE << >>
    IN  HandlerOut([h EXCEPT !.pc = "download", !.appended = added],
                   [w EXCEPT !._messages[thread_ts] = @ \o added])

\* download_and_encode_images returned: the user message is appended and the
\* model is called with the log as it is then.
Downloaded(h, w) ==
    LET thread_ts == h.event.thread_ts
        log == Append(w._messages[thread_ts], Message("user", h.event.text))
    IN  HandlerOut([h EXCEPT !.pc = "chat",
                             !.chat_calls = Append(@, ChatCall("first", log)),
                             !.appended = Append(@, Message("user", h.event.text))],
                   [w EXCEPT !._messages[thread_ts] = log])

\* From `if not _messages.get(thread_ts)` to the first call of the model for
\* an event without files: the system message of a thread without a log, then
\* the user message.
Ordinary(h, w, final_system_prompt) ==
    LET thread_ts == h.event.thread_ts
        started == IF w._messages[thread_ts] = << >>
                       THEN << Message("system", final_system_prompt) >>
                   ELSE w._messages[thread_ts]
        log == Append(started, Message("user", h.event.text))
    IN  HandlerOut([h EXCEPT !.pc = "chat",
                             !.chat_calls = Append(@, ChatCall("first", log)),
                             !.appended = SubSeq(log, Len(w._messages[thread_ts]) + 1,
                                                 Len(log))],
                   [w EXCEPT !._messages[thread_ts] = log])

\* "RECIPE" in user_message
is_recipe_request(user_message) ==
    \E k \in 1 .. Len(user_message) : user_message[k] = RecipeKeyword

\* handle_app_mention of src/main.py up to its first call of the model;
\* recent_memories is what get_recent_memories() gives if it is called.
BotStart(event, w, recent_memories) ==
    LET final_system_prompt ==
            _construct_initial_system_prompt(base_system_prompt,
                                             is_recipe_request(event.text),
                                             w.MEMORY_FEATURE_ENABLED,
                                             recent_memories).prompt
    IN  IF is_recipe_request(event.text) /\ HasFiles(event)
            THEN Download(ack(NewHandler(event, w)), w, final_system_prompt)
        ELSE Ordinary(ack(NewHandler(event, w)), w, final_system_prompt)

(***************************************************************************)
(* handle_app_mention of the Slack agent (src/agents/slack_agent/main.py): *)
(* the two commands, the search mode with its A2A client, and the ordinary *)
(* message.                                                                *)
(***************************************************************************)
\* str.lower() of one fragment.
LowerFragment(c) ==
    CASE c = "/SEARCH" -> "/search"
      [] c = "/Search_Exit" -> "/search_exit"
      [] OTHER -> c

\* str.lower()
lower(text) == [k \in DOMAIN text |-> LowerFragment(text[k])]

\* The confirmation of /search (its backquotes are written as quotes).
EnteredSearchMode ==
    <<"Entered search mode. Send your queries. Type '/search_exit' to leave.">>

ExitedSearchMode == <<"Exited search mode.">>

\* ASCII stand-in for the Japanese prompt used when no rule gives one.
GenericPrompt == <<"GENERIC_ASSISTANT_PROMPT">>

\* rule.condition in user_message: the condition is a part of the message.
Contains(user_message, condition) ==
    \E k \in 1 .. Len(user_message) - Len(condition) + 1 :
        SubSeq(user_message, k, k + Len(condition) - 1) = condition

\* The loop over the rules: the template of the first rule whose condition is
\* in the message, and the template of the default rule if it was passed.
RECURSIVE RuleScan(_, _, _)
RuleScan(rules, user_message, default_prompt_template) ==
    IF rules = << >>
        THEN [system_prompt_content |-> << >>,
              default_prompt_template |-> default_prompt_template]
    ELSE IF Head(rules).condition = << >>
        THEN RuleScan(Tail(rules), user_message, Head(rules).prompt_template)
    ELSE IF Contains(user_message, Head(rules).condition)
        THEN [system_prompt_content |-> Head(rules).prompt_template,
              default_prompt_template |-> default_prompt_template]
    ELSE RuleScan(Tail(rules), user_message, default_prompt_template)

\* _construct_initial_system_prompt(thread_ts, user_message) of the Slack
\* agent, with the list get_recent_memories() gave if it was called.
RulePrompt(rules, user_message, memory_on, recent_memories) ==
    LET scan == RuleScan(rules, user_message, << >>)
        system_prompt_content ==
            IF scan.system_prompt_content # << >> THEN scan.system_prompt_content
            ELSE IF scan.default_prompt_template # << >> THEN scan.default_prompt_template
            ELSE GenericPrompt
    IN  IF memory_on THEN system_prompt_content \o MemorySuffix(recent_memories)
        ELSE system_prompt_content

\* One use of the A2A client.
A2AOp(op, method_name, q) == [op |-> op, method |-> method_name, query |-> q]

\* What call_method can return: an A2AMessage, a string, a dict with or
\* without the key 'result', another object; `content` is the text it holds
\* (for the last two, the text str() gives).
ResponseData(type, keys, content) == [type |-> type, keys |-> keys, content |-> content]

\* The chain of isinstance tests on response_data.
search_result(response_data) ==
    IF response_data.type = "A2AMessage" THEN response_data.content
    ELSE IF response_data.type = "str" THEN response_data.content
    ELSE IF response_data.type = "dict" /\ "result" \in response_data.keys
        THEN response_data.content
    ELSE <<"str(">> \o response_data.content \o <<")">>

\* Variant: the client is disconnected only when the try block did not raise.
Finally_OnSuccessOnly(h, raised) ==
    Finished(IF h.connected /\ ~raised
                 THEN [h EXCEPT !.connected = FALSE,
                                !.a2a = Append(@, A2AOp("disconnect", "", << >>))]
             ELSE h)

\* finally: if client_a2a.is_connected(): await client_a2a.disconnect(); return
Finally(h, raised) ==
    Finished(IF h.connected
                 THEN [h EXCEPT !.connected = FALSE,
                                !.a2a = Append(@, A2AOp("disconnect", "", << >>))]
             ELSE h)

\* f"Error communicating with search agent: {e}"
error_message(e) == <<"Error communicating with search agent: ">> \o e

\* await client_a2a.connect() returned or raised e: when it returned, the
\* request of call_method is on its way.
Connect(h, w, raised, e) ==
    IF raised
        THEN HandlerOut(Finally(send([h EXCEPT !.a2a = Append(@, A2AOp("connect", "", << >>)),
                                               !.a2a_result = [status |-> "connect_raised",
                                                               e |-> e, content |-> << >>]],
                                     error_message(e), h.event.thread_ts), TRUE), w)
    ELSE HandlerOut([h EXCEPT !.pc = "call_method",
                              !.connected = TRUE,
                              !.a2a = @ \o << A2AOp("connect", "", << >>),
                                              A2AOp("call_method", "handle_search",
                                                    h.event.text) >>], w)

\* await client_a2a.call_method("handle_search", query=user_message) returned
\* response_data or raised e.
CallMethod(h, w, raised, e, response_data) ==
    HandlerOut(Finally(send([h EXCEPT !.a2a_result =
                                          IF raised
                                              THEN [status |-> "raised", e |-> e,
                                                    content |-> << >>]
                                          ELSE [status |-> "returned", e |-> << >>,
                                                content |-> search_result(response_data)]],
                            IF raised THEN error_message(e)
                            ELSE <<"Search results:\n">> \o search_result(response_data),
                            h.event.thread_ts), raised), w)

\* Variant: /search turns the search mode of every thread on.
SetSearchMode_AllThreads(state, thread_ts, value) ==
    [t \in DOMAIN state |-> IF value THEN TRUE ELSE state[t]]

\* _search_mode_state[thread_ts] = value
SetSearchMode(state, thread_ts, value) == [state EXCEPT ![thread_ts] = value]

\* ASCII stand-ins for the Japanese words of a rule message: the prefix, the
\* key of the condition and the key of the prompt.
RulePrefix == "SYSTEM_PROMPT:"

ConditionKey == "CONDITION="

PromptKey == "PROMPT="

\* ASCII stand-ins for the four Japanese answers of manage_system_prompt_rules.
InvalidRuleFormat == <<"INVALID_RULE_FORMAT">>

RuleNeedsBoth == <<"CONDITION_AND_PROMPT_NEEDED">>

RuleUpdated(condition) == <<"RULE_UPDATED:">> \o condition

RuleCreated(condition) == <<"RULE_CREATED:">> \o condition

\* \s* from position p: the position of the first fragment that is not white
\* space, Len(text) + 1 if there is none.
SkipSpaces(text, p) ==
    CHOOSE q \in p .. Len(text) + 1 :
        /\ \A j \in p .. q - 1 : text[j] \in Whitespace
        /\ q = Len(text) + 1 \/ text[q] \notin Whitespace

\* re.match of the rule pattern with re.DOTALL: the prefix, white space, the
\* key of the condition, the shortest text that is not empty and is followed
\* by a comma, white space, the key of the prompt and a text that is not
\* empty; group 2 is the rest of the message.
RuleMatch(user_message) ==
    LET n == Len(user_message)
        c == SkipSpaces(user_message, 2)
        ends == { q \in c + 1 .. n - 1 :
                      /\ user_message[q + 1] = ","
                      /\ SkipSpaces(user_message, q + 2) < n
                      /\ user_message[SkipSpaces(user_message, q + 2)] = PromptKey }
        q == CHOOSE x \in ends : \A y \in ends : x <= y
    IN  IF /\ n >= 1
           /\ user_message[1] = RulePrefix
           /\ c <= n
           /\ user_message[c] = ConditionKey
           /\ ends # { }
            THEN [matched |-> TRUE,
                  group1 |-> SubSeq(user_message, c + 1, q),
                  group2 |-> SubSeq(user_message, SkipSpaces(user_message, q + 2) + 1, n)]
        ELSE [matched |-> FALSE, group1 |-> << >>, group2 |-> << >>]

\* What manage_system_prompt_rules leaves: the rule list and the answer.
RulesOut(rules, response_message) == [rules |-> rules, response_message |-> response_message]

\* Variant: the new rule is appended after the default rule.
NewRule_Appended(rules, new_rule) == Append(rules, new_rule)

\* SYSTEM_PROMPT_RULES.insert(default_rule_index, new_rule) at the first rule
\* with the empty condition; append when there is none.
NewRule(rules, new_rule) ==
    LET defaults == { i \in DOMAIN rules : rules[i].condition = << >> }
        default_rule_index == CHOOSE i \in defaults : \A j \in defaults : i <= j
    IN  IF defaults # { }
            THEN SubSeq(rules, 1, default_rule_index - 1) \o << new_rule >>
                 \o SubSeq(rules, default_rule_index, Len(rules))
        ELSE Append(rules, new_rule)

\* manage_system_prompt_rules(user_message) on the rule list `rules`.
manage_system_prompt_rules(rules, user_message) ==
    LET match == RuleMatch(user_message)
        condition == strip(match.group1)
        prompt_text == strip(match.group2)
        existing == { i \in DOMAIN rules : rules[i].condition = condition }
        first == CHOOSE i \in existing : \A j \in existing : i <= j
    IN  IF ~match.matched THEN RulesOut(rules, InvalidRuleFormat)
        ELSE IF condition = << >> \/ prompt_text = << >>
            THEN RulesOut(rules, RuleNeedsBoth)
        ELSE IF existing # { }
            THEN RulesOut([rules EXCEPT ![first].prompt_template = prompt_text],
                          RuleUpdated(condition))
        ELSE RulesOut(NewRule(rules, [condition |-> condition,
                                      prompt_template |-> prompt_text]),
                      RuleCreated(condition))

\* if user_message.startswith(prefix): the rules are managed, the answer is
\* posted and the handler returns.
ManageRules(h, w) ==
    LET out == manage_system_prompt_rules(w.SYSTEM_PROMPT_RULES, h.event.text)
    IN  HandlerOut(Finished(send(h, out.response_message, h.event.thread_ts)),
                   [w EXCEPT !.SYSTEM_PROMPT_RULES = out.rules])

\* user_message.startswith(prefix)
IsRuleMessage(user_message) == user_message # << >> /\ user_message[1] = RulePrefix

\* Variant: in search mode the message also goes on to the model.
Route_SearchThenOrdinary(h, w, final_system_prompt) ==
    Ordinary([h EXCEPT !.a2a = << A2AOp("A2AClient", "", << >>) >>], w, final_system_prompt)

\* if _search_mode_state[thread_ts]: the A2A client is made and connect is
\* awaited; otherwise a rule message is handled, and any other message is an
\* ordinary one.
Route(h, w, final_system_prompt) ==
    IF w._search_mode_state[h.event.thread_ts]
        THEN HandlerOut([h EXCEPT !.pc = "connect",
                                  !.a2a = << A2AOp("A2AClient", "", << >>) >>], w)
    ELSE IF IsRuleMessage(h.event.text) THEN ManageRules(h, w)
    ELSE IF HasFiles(h.event) THEN Download(h, w, final_system_prompt)
    ELSE Ordinary(h, w, final_system_prompt)

\* handle_app_mention of the Slack agent up to its return or its first await
\* of the A2A client or of the model.
SlackStart(event, w, recent_memories) ==
    LET h == ack(NewHandler(event, w))
        thread_ts == event.thread_ts
        user_message_lower == lower(strip(event.text))
    IN  IF user_message_lower = <<"/search">>
            THEN HandlerOut(Finished(send(h, EnteredSearchMode, thread_ts)),
                            [w EXCEPT !._search_mode_state =
                                          SetSearchMode(@, thread_ts, TRUE)])
        ELSE IF user_message_lower = <<"/search_exit">>
            THEN HandlerOut(Finished(send(h, ExitedSearchMode, thread_ts)),
                            [w EXCEPT !._search_mode_state =
                                          SetSearchMode(@, thread_ts, FALSE)])
        ELSE Route(h, w, RulePrompt(w.SYSTEM_PROMPT_RULES, event.text,
                                    w.MEMORY_FEATURE_ENABLED, recent_memories))

(***************************************************************************)
(* The Slack bot as a state machine.  Events are handled one after the     *)
(* other: an event is taken when no handler is suspended.                  *)
(***************************************************************************)
\* The process starts with the memory feature as the environment sets it.
SlackBotInit ==
    /\ AgentInit
    /\ SlackInit
    /\ CacheInit
    /\ MEMORY_FEATURE_ENABLED \in BOOLEAN

Idle == \A k \in DOMAIN handlers : handlers[k].pc = "returned"

\* The globals become what the step left.
Globals(w) ==
    /\ _search_mode_state' = w._search_mode_state
    /\ _messages' = w._messages
    /\ memories' = w.memories
    /\ SYSTEM_PROMPT_RULES' = w.SYSTEM_PROMPT_RULES
    /\ UNCHANGED <<agent_vars, MEMORY_FEATURE_ENABLED, db_last, python_vars, cache_vars>>

\* A new call of handle_app_mention ran to `out`.
Begin(out) ==
    /\ handlers' = Append(handlers, out.h)
    /\ Globals(out.w)

\* The suspended call k went on to `out`.
Resume(k, out) ==
    /\ handlers' = [handlers EXCEPT ![k] = out.h]
    /\ Globals(out.w)

\* The first call of the model of handler k returns one of `contents`.
FirstChatReturns(contents) ==
    \E k \in DOMAIN handlers, content \in contents :
        /\ handlers[k].pc = "chat"
        /\ Resume(k, FirstReply(handlers[k], World, content))

SecondChatReturns(contents) ==
    \E k \in DOMAIN handlers, content \in contents :
        /\ handlers[k].pc = "chat2"
        /\ Resume(k, SecondReply(handlers[k], World, content))

\* The summarizing call returns a text, returns white space, or raises; the
\* clock of add_memory reads the number of events so far.
Summaries == { <<"s1">>, <<" ">> }

SummaryReturns ==
    \E k \in DOMAIN handlers :
        /\ handlers[k].pc = "summary"
        /\ \/ \E content \in Summaries :
                  Resume(k, SummaryReply(handlers[k], World, FALSE, content,
                                         Len(handlers)))
           \/ Resume(k, SummaryReply(handlers[k], World, TRUE, << >>, Len(handlers)))

\* The texts of the Slack agent's events: the commands as typed, in another
\* case and with white space around, a text that begins like a command, and
\* an ordinary text.
SlackTexts ==
    { <<"/search">>, <<" ", "/SEARCH", " ">>, <<"/search_exit">>, <<"/Search_Exit">>,
      <<"/search", " ", "x">>, <<"hello">> }

\* The replies of the model in the Slack agent: without and with a block.
SlackReplies == { <<"hi">>, <<"run", FenceOpen, "print(1)", FenceClose>> }

SlackEvent ==
    /\ Len(handlers) < MaxSlackEvents
    /\ Idle
    /\ \E thread_ts \in Threads, text \in SlackTexts :
       \E recent_memories \in get_recent_memories(memories, DefaultLimit) :
           Begin(SlackStart(Event(thread_ts, text), World, recent_memories))

\* connect() of handler k returns or raises.
A2AConnects ==
    \E k \in DOMAIN handlers :
        /\ handlers[k].pc = "connect"
        /\ \/ Resume(k, Connect(handlers[k], World, FALSE, << >>))
           \/ Resume(k, Connect(handlers[k], World, TRUE, <<"ConnectionRefused">>))

\* The answers of the search agent.
Responses ==
    << ResponseData("str", { }, <<"r1">>),
       ResponseData("A2AMessage", { }, <<"r2">>),
       ResponseData("dict", {"result"}, <<"r3">>),
       ResponseData("dict", {"error"}, <<"{'error': 'e'}">>),
       ResponseData("NoneType", { }, <<"None">>) >>

\* call_method of handler k returns or raises.
A2ACallReturns ==
    \E k \in DOMAIN handlers :
        /\ handlers[k].pc = "call_method"
        /\ \/ \E r \in DOMAIN Responses :
                  Resume(k, CallMethod(handlers[k], World, FALSE, << >>, Responses[r]))
           \/ Resume(k, CallMethod(handlers[k], World, TRUE, <<"A2A connection error">>,
                                   Responses[1]))

SlackFirstChatReturns == FirstChatReturns(SlackReplies)

SlackSecondChatReturns == SecondChatReturns({ <<"done">> })

NextSlackAgent ==
    \/ SlackEvent
    \/ A2AConnects
    \/ A2ACallReturns
    \/ SlackFirstChatReturns
    \/ SlackSecondChatReturns
    \/ SummaryReturns

SpecSlackAgent == SlackBotInit /\ [][NextSlackAgent]_vars

(***************************************************************************)
(* The Slack bot of src/main.py as a state machine: every message is an    *)
(* ordinary one.                                                           *)
(***************************************************************************)
\* The texts of the bot's events: an ordinary text and a recipe request.
BotTexts == { <<"hello">>, <<"RECIPE", " please">> }

\* The replies of the model to the first call: no block, one block, two
\* blocks, and reasoning that holds a block followed by an answer without.
BotReplies ==
    { <<"hi">>,
      <<"run", FenceOpen, "print(1)", FenceClose>>,
      <<FenceOpen, "print(1)", FenceClose, "then", FenceOpen, "1/0", FenceClose>>,
      <<FenceOpen, "1/0", FenceClose>> \o ThinkEnd \o <<"answer">> }

\* The replies of the model to the second call.
BotSecondReplies == { <<"done">>, <<"hm">> \o ThinkEnd \o <<"done", " ">> }

BotEvent ==
    /\ Len(handlers) < MaxBotEvents
    /\ Idle
    /\ \E thread_ts \in Threads, text \in BotTexts :
       \E recent_memories \in get_recent_memories(memories, DefaultLimit) :
           Begin(BotStart(Event(thread_ts, text), World, recent_memories))

BotFirstChatReturns == FirstChatReturns(BotReplies)

BotSecondChatReturns == SecondChatReturns(BotSecondReplies)

NextBot ==
    \/ BotEvent
    \/ BotFirstChatReturns
    \/ BotSecondChatReturns
    \/ SummaryReturns

SpecBot == SlackBotInit /\ [][NextBot]_vars

(***************************************************************************)
(* The memory functions of src/main.py called directly, in any order, on   *)
(* the table: add_memory, get_recent_memories(limit) and                   *)
(* _construct_initial_system_prompt.                                       *)
(***************************************************************************)
\* The threads that get a memory.
MemoryThreads == Threads \cup {"t3"}

\* The summaries; each is one fragment.
MemorySummaries == { <<"s1">>, <<"s2">> }

\* The readings of time.time(): the clock may read the same twice and may
\* be set back.
MemoryTimes == {1, 2}

\* The base prompts passed to _construct_initial_system_prompt.
BasePrompts == { base_system_prompt, <<"You are an assistant.">> }

\* The other variables stay as they are.
MemoryOnly == UNCHANGED <<agent_vars, _search_mode_state, _messages, handlers,
                          MEMORY_FEATURE_ENABLED, SYSTEM_PROMPT_RULES, python_vars,
                          cache_vars>>

\* add_memory(thread_ts, summary) with time.time() reading current_time
AddMemory ==
    /\ Len(db_last.calls) < MaxMemoryCalls
    /\ \E thread_ts \in MemoryThreads, summary \in MemorySummaries,
          current_time \in MemoryTimes :
           /\ memories' = add_memory(memories, thread_ts, summary, current_time)
           /\ db_last' = [NoCall EXCEPT
                              !.op = "add_memory",
                              !.calls = Append(db_last.calls,
                                               Row(thread_ts, current_time, summary))]
    /\ MemoryOnly

\* get_recent_memories(limit)
GetRecentMemories ==
    /\ \E limit \in 0 .. MaxLimit :
       \E result \in get_recent_memories(memories, limit) :
           db_last' = [NoCall EXCEPT !.op = "get_recent_memories",
                                     !.calls = db_last.calls,
                                     !.limit = limit,
                                     !.result = result]
    /\ UNCHANGED memories
    /\ MemoryOnly

\* _construct_initial_system_prompt(thread_ts, base_prompt, is_recipe); the
\* table is read, by get_recent_memories(), only with the memory feature on.
ConstructPrompt ==
    /\ \E base_prompt \in BasePrompts, is_recipe \in BOOLEAN :
       \E recent_memories \in IF MEMORY_FEATURE_ENABLED
                                  THEN get_recent_memories(memories, DefaultLimit)
                              ELSE { << >> } :
           LET r == _construct_initial_system_prompt(
                        base_prompt, is_recipe, MEMORY_FEATURE_ENABLED, recent_memories)
           IN  db_last' = [NoCall EXCEPT !.op = "_construct_initial_system_prompt",
                                         !.calls = db_last.calls,
                                         !.base_prompt = base_prompt,
                                         !.is_recipe = is_recipe,
                                         !.recent_memories = recent_memories,
                                         !.reads = r.reads,
                                         !.result = r.prompt]
    /\ UNCHANGED memories
    /\ MemoryOnly

NextMemory ==
    \/ AddMemory
    \/ GetRecentMemories
    \/ ConstructPrompt

SpecMemory == SlackBotInit /\ [][NextMemory]_vars

(***************************************************************************)
(* execute_python_code of src/main.py called directly, on code strings of  *)
(* a few statements, in a process whose sys.stdout and sys.stderr the host *)
(* may have replaced.                                                      *)
(***************************************************************************)
\* The statements, "print(" among them.
Statements == {"print(1)", "sys.stderr.write('w')", "1/0", "sys.exit()", "print(", "x = 1"}

RECURSIVE CodesOfLen(_)
CodesOfLen(n) ==
    IF n = 0 THEN { << >> }
    ELSE { Append(code, st) : code \in CodesOfLen(n - 1), st \in Statements }

\* The code strings: up to MaxCodeLen statements.
CodeStrings == UNION { CodesOfLen(n) : n \in 0 .. MaxCodeLen }

\* The other variables stay as they are.
PythonOnly == UNCHANGED <<agent_vars, _search_mode_state, _messages, handlers, memories,
                          MEMORY_FEATURE_ENABLED, db_last, SYSTEM_PROMPT_RULES,
                          cache_vars>>

\* The host replaces sys.stdout and sys.stderr, or puts the original ones back.
ReplaceSys ==
    /\ \E system \in { OriginalSys, [stdout |-> "<log file>", stderr |-> "<stderr>"],
                        [stdout |-> "<log file>", stderr |-> "<log file>"] } :
           sys' = system
    /\ sys' # sys
    /\ UNCHANGED python_last
    /\ PythonOnly

\* execute_python_code(code_string)
ExecutePython ==
    /\ \E code_string \in CodeStrings :
           /\ sys' = ExecutePythonCode(code_string, sys).sys
           /\ python_last' =
                  [op |-> "execute_python_code", code_string |-> code_string,
                   raised |-> ExecutePythonCode(code_string, sys).raised,
                   e |-> ExecutePythonCode(code_string, sys).e,
                   result |-> ExecutePythonCode(code_string, sys).result,
                   sys_before |-> sys,
                   sys_after |-> ExecutePythonCode(code_string, sys).sys]
    /\ PythonOnly

NextPython ==
    \/ ReplaceSys
    \/ ExecutePython

SpecPython == Init /\ [][NextPython]_vars

(***************************************************************************)
(* The rule messages of the Slack agent as a state machine: every event is *)
(* a message that starts with the prefix of a rule message.                *)
(***************************************************************************)
\* Rule messages: a new condition, the same condition with white space around
\* it, the condition of the recipe rule, a condition and a prompt of white
\* space only, a message without the key of the condition, a condition that
\* holds a comma, and a second new condition.
RuleTexts ==
    { <<RulePrefix, " ", ConditionKey, "k1", ",", " ", PromptKey, "p1">>,
      <<RulePrefix, ConditionKey, " ", "k1", " ", ",", PromptKey, " ", "p2">>,
      <<RulePrefix, " ", ConditionKey, RecipeKeyword, ",", PromptKey, "p1">>,
      <<RulePrefix, " ", ConditionKey, " ", ",", PromptKey, "p1">>,
      <<RulePrefix, ConditionKey, "k2", ",", PromptKey, " ">>,
      <<RulePrefix, "k1", ",", PromptKey, "p1">>,
      <<RulePrefix, ConditionKey, "k1", ",", "x", ",", " ", PromptKey, "p1", ",",
        PromptKey, "p2">>,
      <<RulePrefix, ConditionKey, "k2", ",", PromptKey, "p1">> }

RuleEvent ==
    /\ Len(handlers) < MaxRuleCalls
    /\ Idle
    /\ \E thread_ts \in Threads, text \in RuleTexts :
           Begin(SlackStart(Event(thread_ts, text), World, << >>))

NextRules == RuleEvent

SpecRules == Init /\ [][NextRules]_vars

(***************************************************************************)
(* The Slack agent with events handled concurrently: an event is taken     *)
(* while other handlers are suspended at an await.                         *)
(***************************************************************************)
\* body["event"] with files.
FileEvent(thread_ts, text, event_files) ==
    [thread_ts |-> thread_ts, text |-> text, files |-> event_files]

\* A rule message that gives the text "hello" a prompt of its own.
HelloRule == <<RulePrefix, ConditionKey, "hello", ",", PromptKey, "p1">>

\* The events: two ordinary texts, a text with a file and a rule message.
OverlapEvents ==
    { Event(thread_ts, text) :
          thread_ts \in Threads, text \in { <<"hello">>, <<"bye">>, HelloRule } }
    \cup { FileEvent(thread_ts, <<"hello">>, <<"f1">>) : thread_ts \in Threads }

OverlapEvent ==
    /\ Len(handlers) < MaxOverlapEvents
    /\ \E event \in OverlapEvents : Begin(SlackStart(event, World, << >>))

\* download_and_encode_images of handler k returns.
DownloadReturns ==
    \E k \in DOMAIN handlers :
        /\ handlers[k].pc = "download"
        /\ Resume(k, Downloaded(handlers[k], World))

OverlapFirstChatReturns == FirstChatReturns(SlackReplies)

OverlapSecondChatReturns == SecondChatReturns({ <<"done">> })

NextOverlap ==
    \/ OverlapEvent
    \/ DownloadReturns
    \/ OverlapFirstChatReturns
    \/ OverlapSecondChatReturns

SpecOverlap == Init /\ [][NextOverlap]_vars

(***************************************************************************)
(* The URL content cache of search_tools: get_content and batch_search     *)
(* called by concurrent tasks of one process.  A dict is the set of its    *)
(* keys; a file is << >> when it does not exist and holds one pickled      *)
(* value otherwise.                                                        *)
(***************************************************************************)
\* The URLs asked for, each a pair of its domain and its path.
Urls == { <<"a.com", "/1">>, <<"a.com", "/2">>, <<"b.com", "/1">> }

\* urlparse(url).netloc
netloc(url) == url[1]

\* The module globals and the two files.
CacheState ==
    [URL_CONTENT_CACHE |-> URL_CONTENT_CACHE, BLACKLIST_DOMAINS |-> BLACKLIST_DOMAINS,
     url_cache_pkl |-> url_cache_pkl, blacklist_pkl |-> blacklist_pkl]

\* load_cache(): each global is bound to what its file holds, if the file
\* exists.
load_cache(c) ==
    [c EXCEPT !.URL_CONTENT_CACHE = IF c.url_cache_pkl # << >>
                                        THEN c.url_cache_pkl[1] ELSE @,
              !.BLACKLIST_DOMAINS = IF c.blacklist_pkl # << >>
                                        THEN c.blacklist_pkl[1] ELSE @]

\* save_cache(): the dict the global names now is dumped.
save_cache(c) == [c EXCEPT !.url_cache_pkl = << c.URL_CONTENT_CACHE >>]

\* save_blacklist(): the set the global names now is dumped.
save_blacklist(c) == [c EXCEPT !.blacklist_pkl = << c.BLACKLIST_DOMAINS >>]

\* A call of get_content or batch_search: where it is, whether it stored a
\* page entry, whether it blacklisted the domain, and what the two files
\* held when it had saved them.
CacheCall(op, url, pc) ==
    [op |-> op, url |-> url, pc |-> pc, stored |-> FALSE, blacklisted |-> FALSE,
     saved |-> FALSE, saved_cache |-> { }, saved_blacklist |-> { }]

\* The other variables stay as they are.
CacheOnly == UNCHANGED <<agent_vars, _search_mode_state, _messages, handlers, memories,
                         MEMORY_FEATURE_ENABLED, db_last, SYSTEM_PROMPT_RULES,
                         python_vars>>

\* The globals and the files become c.
CacheBecomes(c) ==
    /\ URL_CONTENT_CACHE' = c.URL_CONTENT_CACHE
    /\ BLACKLIST_DOMAINS' = c.BLACKLIST_DOMAINS
    /\ url_cache_pkl' = c.url_cache_pkl
    /\ blacklist_pkl' = c.blacklist_pkl
    /\ CacheOnly

\* The end of the finally block: await save_cache(), await save_blacklist(),
\* neither of which lets another task run, and the call returns.
SavedAndReturned(call, c) ==
    LET after == save_blacklist(save_cache(c))
    IN  [call EXCEPT !.pc = "returned", !.saved = TRUE,
                     !.saved_cache = after.url_cache_pkl[1],
                     !.saved_blacklist = after.blacklist_pkl[1]]

\* get_content(browser, url) up to its return or to await browser.new_page():
\* the cache is loaded; a blacklisted domain and a fresh entry of the cache
\* return at once, before the try block.
GetContent ==
    /\ Len(cache_calls) < MaxCacheCalls
    /\ \E url \in Urls, fresh \in BOOLEAN :
           LET c == load_cache(CacheState)
               hit == netloc(url) \in c.BLACKLIST_DOMAINS
                          \/ (url \in c.URL_CONTENT_CACHE /\ fresh)
           IN  /\ cache_calls' =
                      Append(cache_calls,
                             CacheCall("get_content", url,
                                       IF hit THEN "returned" ELSE "new_page"))
               /\ CacheBecomes(c)

\* await browser.new_page() of call k returns.
NewPageReturns ==
    \E k \in DOMAIN cache_calls :
        /\ cache_calls[k].pc = "new_page"
        /\ cache_calls' = [cache_calls EXCEPT ![k].pc = "goto"]
        /\ CacheBecomes(CacheState)

\* The domain of call k is added to the set the global names now.
Blacklisted(k) ==
    [CacheState EXCEPT !.BLACKLIST_DOMAINS = @ \cup { netloc(cache_calls[k].url) }]

\* await page.goto(url) of call k returns a response, returns None or a
\* response with a status of 400 or more, or raises.
GotoReturns ==
    \E k \in DOMAIN cache_calls :
        /\ cache_calls[k].pc = "goto"
        /\ \/ /\ cache_calls' = [cache_calls EXCEPT ![k].pc = "content"]
              /\ CacheBecomes(CacheState)
           \/ /\ cache_calls' = [cache_calls EXCEPT ![k].pc = "page_close",
                                                     ![k].blacklisted = TRUE]
              /\ CacheBecomes(Blacklisted(k))
           \/ /\ cache_calls' = [cache_calls EXCEPT ![k].pc = "finally_close",
                                                     ![k].blacklisted = TRUE]
              /\ CacheBecomes(Blacklisted(k))

\* await page.close() after the domain was blacklisted returns: return None,
\* and the finally block finds the page closed and saves.
PageCloseReturns ==
    \E k \in DOMAIN cache_calls :
        /\ cache_calls[k].pc = "page_close"
        /\ cache_calls' = [cache_calls EXCEPT
                               ![k] = SavedAndReturned(@, CacheState)]
        /\ CacheBecomes(save_blacklist(save_cache(CacheState)))

\* await page.content() of call k returns, and the entry is stored in the
\* dict the global names now, or raises, and the domain is blacklisted; the
\* finally block then awaits page.close().
ContentReturns ==
    \E k \in DOMAIN cache_calls :
        /\ cache_calls[k].pc = "content"
        /\ \/ /\ cache_calls' = [cache_calls EXCEPT ![k].pc = "finally_close",
                                                     ![k].stored = TRUE]
              /\ CacheBecomes([CacheState EXCEPT
                                   !.URL_CONTENT_CACHE = @ \cup { cache_calls[k].url }])
           \/ /\ cache_calls' = [cache_calls EXCEPT ![k].pc = "finally_close",
                                                     ![k].blacklisted = TRUE]
              /\ CacheBecomes(Blacklisted(k))

\* await page.close() of the finally block returns: the cache and the
\* blacklist are saved.
FinallyCloseReturns ==
    \E k \in DOMAIN cache_calls :
        /\ cache_calls[k].pc = "finally_close"
        /\ cache_calls' = [cache_calls EXCEPT
                               ![k] = SavedAndReturned(@, CacheState)]
        /\ CacheBecomes(save_blacklist(save_cache(CacheState)))

\* batch_search(queries): load, the Google search, save; no await of it lets
\* another task run.
BatchSearch ==
    /\ Len(cache_calls) < MaxCacheCalls
    /\ cache_calls' =
           Append(cache_calls,
                  SavedAndReturned(CacheCall("batch_search", << >>, "returned"),
                                   load_cache(CacheState)))
    /\ CacheBecomes(save_blacklist(save_cache(load_cache(CacheState))))

NextCache ==
    \/ GetContent
    \/ NewPageReturns
    \/ GotoReturns
    \/ PageCloseReturns
    \/ ContentReturns
    \/ FinallyCloseReturns
    \/ BatchSearch

SpecCache == Init /\ [][NextCache]_vars

(***************************************************************************)
(* Properties of the rule list.                                            *)
(***************************************************************************)
\* The last event was a rule message handled by manage_system_prompt_rules.
RulesManaged ==
    /\ handlers # << >>
    /\ Last(handlers).pc = "returned"
    /\ IsRuleMessage(Last(handlers).event.text)
    /\ ~Last(handlers).before._search_mode_state[Last(handlers).event.thread_ts]

\* C37: after any sequence of manage_system_prompt_rules calls no two rules
\* have the same condition and the default rule, the one with the empty
\* condition, is the last rule with the template it started with; a message
\* that does not match the rule format leaves the list as it was, and a
\* message naming an existing condition changes the template of that rule and
\* nothing else.
C37_RulesDistinctDefaultLast ==
    LET rules == SYSTEM_PROMPT_RULES
        h == Last(handlers)
        was == h.before.SYSTEM_PROMPT_RULES
        match == RuleMatch(h.event.text)
        condition == strip(match.group1)
        prompt_text == strip(match.group2)
        \* The message has the rule format: a condition and a prompt, neither
        \* of them empty or white space only.
        well_formed == match.matched /\ condition # << >> /\ prompt_text # << >>
    IN  /\ \A i, j \in DOMAIN rules :
               i # j => rules[i].condition # rules[j].condition
        /\ rules # << >>
        /\ Last(rules) = Last(InitialRules)
        /\ \A i \in DOMAIN rules : rules[i].condition = << >> => i = Len(rules)
        /\ RulesManaged =>
               /\ ~well_formed => rules = was
               /\ (well_formed /\ \E i \in DOMAIN was : was[i].condition = condition) =>
                      /\ Len(rules) = Len(was)
                      /\ \A i \in DOMAIN was :
                             /\ rules[i].condition = was[i].condition
                             /\ was[i].condition # condition =>
                                    rules[i].prompt_template = was[i].prompt_template
                             /\ was[i].condition = condition =>
                                    rules[i].prompt_template = prompt_text

\* Two rules were created before the default rule and the template of the
\* recipe rule was then replaced.
C37_Witness ==
    /\ RulesManaged
    /\ Len(SYSTEM_PROMPT_RULES) = 4
    /\ Len(Last(handlers).before.SYSTEM_PROMPT_RULES) = 4
    /\ SYSTEM_PROMPT_RULES[1].condition = <<RecipeKeyword>>
    /\ SYSTEM_PROMPT_RULES[1].prompt_template = <<"p1">>

(***************************************************************************)
(* Properties of the thread logs when events are handled concurrently.     *)
(***************************************************************************)
\* The handler went past the commands, the search mode and the rule
\* messages: its message is an ordinary one.
IsOrdinary(h) == h.chat_calls # << >> \/ h.pc = "download"

\* The handlers that appended the system message of thread t.
Creators(t) ==
    { k \in DOMAIN handlers :
          /\ handlers[k].event.thread_ts = t
          /\ handlers[k].appended # << >>
          /\ Head(handlers[k].appended).role = "system" }

\* C38: however the events interleave, every thread log that is not empty has
\* exactly one system message, at index 0; it is the one made when the first
\* ordinary message of the thread was handled, from the rules as they were
\* then, and it stays what it was when rules are changed later.
C38_OneSystemMessageFirst ==
    \A t \in Threads :
        _messages[t] # << >> =>
            /\ _messages[t][1].role = "system"
            /\ \A i \in 2 .. Len(_messages[t]) : _messages[t][i].role # "system"
            /\ Cardinality(Creators(t)) = 1
            /\ \A k \in Creators(t) :
                   /\ _messages[t][1] =
                          Message("system",
                                  RulePrompt(handlers[k].before.SYSTEM_PROMPT_RULES,
                                             handlers[k].event.text,
                                             MEMORY_FEATURE_ENABLED, << >>))
                   /\ \A j \in 1 .. k - 1 :
                          handlers[j].event.thread_ts = t => ~IsOrdinary(handlers[j])

\* Two events of one thread were handled at the same time: the second was
\* taken while the first, which made the system message, awaited its
\* download; both have returned.
C38_Witness ==
    /\ Len(handlers) = 2
    /\ handlers[1].event.thread_ts = handlers[2].event.thread_ts
    /\ HasFiles(handlers[1].event)
    /\ Len(handlers[2].before._messages[handlers[2].event.thread_ts]) = 1
    /\ IsOrdinary(handlers[2])
    /\ \A k \in DOMAIN handlers : handlers[k].pc = "returned"

\* The last user message of a log; a log without one gives the empty text.
RECURSIVE LastUser(_)
LastUser(log) ==
    IF log = << >> THEN << >>
    ELSE IF Last(log).role = "user" THEN Last(log).content
    ELSE LastUser(SubSeq(log, 1, Len(log) - 1))

\* C39: in a thread log every user message is followed by the assistant reply
\* to it before the next user message, and every reply is generated from a
\* log whose last user message is the one being answered, also when two
\* events of one thread are handled at the same time.
C39_UserThenItsReply ==
    /\ \A t \in Threads :
           \A i, j \in DOMAIN _messages[t] :
               (i < j /\ _messages[t][i].role = "user" /\ _messages[t][j].role = "user")
                   => \E m \in i + 1 .. j - 1 : _messages[t][m].role = "assistant"
    /\ \A k \in DOMAIN handlers :
           \A c \in DOMAIN handlers[k].chat_calls :
               handlers[k].chat_calls[c].call \in {"first", "second"}
                   => LastUser(handlers[k].chat_calls[c].messages) = handlers[k].event.text

(***************************************************************************)
(* Properties of the URL content cache.                                    *)
(***************************************************************************)
\* C40: the cache is safe for concurrent use: a page entry a get_content call
\* stored is in the cache file saved when that call finishes, and a domain it
\* blacklisted is in the blacklist saved then, whatever other get_content or
\* batch_search calls ran in between.
C40_StoredEntrySaved ==
    \A k \in DOMAIN cache_calls :
        (cache_calls[k].op = "get_content" /\ cache_calls[k].saved) =>
            /\ cache_calls[k].stored => cache_calls[k].url \in cache_calls[k].saved_cache
            /\ cache_calls[k].blacklisted =>
                   netloc(cache_calls[k].url) \in cache_calls[k].saved_blacklist

\* A call that is the only one of the process saves the entry it stored and
\* the domain it blacklisted.
CacheSavedWhenAlone ==
    \A k \in DOMAIN cache_calls :
        (/\ cache_calls[k].op = "get_content"
         /\ cache_calls[k].saved
         /\ Len(cache_calls) = 1) =>
            /\ cache_calls[k].stored => cache_calls[k].url \in cache_calls[k].saved_cache
            /\ cache_calls[k].blacklisted =>
                   netloc(cache_calls[k].url) \in cache_calls[k].saved_blacklist

(***************************************************************************)
(* Properties of ToolCaller.action.                                        *)
(***************************************************************************)
\* A turn in which select_tool chose no tool.
IsNoToolTurn(e) == e.function_name = None

\* A turn in which select_tool chose a name that is not registered.
IsUnregisteredTurn(e) == e.function_name \notin (available_functions \cup {None})

\* A turn whose tool call returned (the tool was dispatched and did not raise).
IsDispatchTurn(e) == e.kind \in {"tool", "ask", "complete", "refine"}

Called == last.kind # "init"

\* f"<failed>\n...\n</failed>"
IsFailedText(text) ==
    /\ Len(text) >= 2
    /\ Head(text) = "<failed>\n"
    /\ Last(text) = "\n</failed>"

\* C1: whenever three consecutive action() calls on one ToolCaller each get a
\* selector outcome without a tool, the third returns done = TRUE, whatever
\* the three texts are.
C1_ThreeNoToolTurnsEndTheRun ==
    \A i \in 3 .. Len(trace) :
        (IsNoToolTurn(trace[i - 2]) /\ IsNoToolTurn(trace[i - 1]) /\ IsNoToolTurn(trace[i]))
            => (trace[i].done /\ (i = Len(trace) => done))

\* Three turns without a tool, the third one a failed inference call, ended the run.
C1_Witness ==
    /\ Len(trace) = 3
    /\ \A i \in 1 .. 3 : IsNoToolTurn(trace[i])
    /\ IsFailedText(last.all_messages)
    /\ done

\* C2: a turn without a tool returns done = TRUE only when the two turns before
\* it were turns without a tool too (three in a row, not three in total), and
\* a dispatched tool leaves no_tool_count at 0.
C2_ForcedEndNeedsThreeInARow ==
    /\ \A i \in 1 .. Len(trace) :
           (IsNoToolTurn(trace[i]) /\ trace[i].done)
               => (i >= 3 /\ IsNoToolTurn(trace[i - 1]) /\ IsNoToolTurn(trace[i - 2]))
    /\ (Called /\ IsDispatchTurn(last)) => no_tool_count = 0

\* Three turns without a tool in total, a dispatched tool between them, and the
\* run goes on.
C2_Witness ==
    /\ Len(trace) = 4
    /\ IsNoToolTurn(trace[1]) /\ IsNoToolTurn(trace[2])
    /\ trace[3].kind = "tool"
    /\ IsNoToolTurn(trace[4])
    /\ ~done

\* C3: when the streak of turns without a tool reaches 3, the canned message is
\* sent with messenger.send and the run ends with done = TRUE.
C3_ForcedEndSendsCannedMessage ==
    (Called /\ IsNoToolTurn(last) /\ NoToolLimitReached(last.count_before + 1))
        => (done /\ last.direct = <<complete_message>>)

\* C4: every invocation of complete by action(), the forced one and the one the
\* selector chose, yields done = TRUE and sends the message exactly once.
C4_CompleteSendsOnce ==
    /\ last.kind = "forced" => (done /\ last.direct = <<complete_message>>)
    /\ last.kind = "complete" => (done /\ last.direct = <<last.arguments.message>>)

\* C5 as stated: every turn in which the selector chooses ask_to_user returns
\* (wait_for_user, done) = (TRUE, FALSE) and appends one assistant message,
\* the message argument.
C5_EveryAskPauses ==
    (Called /\ last.function_name = "ask_to_user")
        => /\ wait_for_user /\ ~done
           /\ messages = Append(prev.messages, Message("assistant", last.arguments.message))

\* C5 amended: the same for the turns in which ask_to_user is chosen with
\* exactly its one argument, message.
C5_AskWithItsArgumentPauses ==
    (Called /\ last.function_name = "ask_to_user" /\ DOMAIN last.arguments = {"message"})
        => /\ wait_for_user /\ ~done
           /\ messages = Append(prev.messages, Message("assistant", last.arguments.message))

C5_Witness ==
    /\ last.function_name = "ask_to_user"
    /\ DOMAIN last.arguments = {"message"}
    /\ wait_for_user
    /\ Len(messages) = Len(prev.messages) + 1

\* C6: when the tool call raises, action() returns (FALSE, FALSE), the log ends
\* with the <failed>-wrapped text of the exception after the failure note and
\* the announcement, and the next call starts a new streak: a turn without a
\* tool right after it is an ordinary one.
C6_ToolExceptionIsContained ==
    /\ (Called /\ last.raised)
           => /\ ~wait_for_user /\ ~done
              /\ Len(messages) = Len(prev.messages) + 3
              /\ SubSeq(messages, 1, Len(prev.messages)) = prev.messages
              /\ messages[Len(messages) - 2] =
                     Message("assistant", FailureNote(last.output))
              /\ Last(messages).role = "user"
              /\ Last(messages).content = Failed(last.output)
              /\ current_task = prev.current_task
    /\ \A i \in 1 .. Len(trace) :
           trace[i].kind = "raised"
               => /\ ~trace[i].done /\ ~trace[i].wait_for_user
                  /\ (i < Len(trace) /\ IsNoToolTurn(trace[i + 1])) => ~trace[i + 1].done

\* A tool raised (the page fetch of infer_knowledge_by_url), and the call after
\* it dispatched a tool.
C6_Witness ==
    /\ Len(trace) >= 2
    /\ trace[Len(trace) - 1].kind = "raised"
    /\ trace[Len(trace) - 1].function_name = "infer_knowledge_by_url"
    /\ last.kind = "tool"
    /\ IsFailedText(prev.messages[Len(prev.messages)].content)

\* C7: a name that is not registered is skipped with no change of state: the
\* returned log and task are those of the input state.
C7_UnregisteredNameChangesNothing ==
    (Called /\ IsUnregisteredTurn(last))
        => (messages = prev.messages /\ current_task = prev.current_task)

\* C8: a turn that chooses a name that is not registered never increments
\* no_tool_count and returns (FALSE, FALSE), so that no run of such turns is
\* ever ended by the three-strike rule.
C8_UnregisteredNameIsNoStrike ==
    /\ (Called /\ IsUnregisteredTurn(last))
           => (no_tool_count = 0 /\ no_tool_count <= last.count_before)
    /\ \A i \in 1 .. Len(trace) :
           IsUnregisteredTurn(trace[i]) => (~trace[i].done /\ ~trace[i].wait_for_user)

\* Four turns in a row chose a name that is not registered, and the run goes on.
C8_Witness ==
    /\ Len(trace) = 4
    /\ \A i \in 1 .. 4 : IsUnregisteredTurn(trace[i])
    /\ ~done /\ ~wait_for_user
    /\ no_tool_count = 0

\* C9: a turn that chooses refine_task with the arguments current_task and
\* context replaces the task by the result of the nested inference call,
\* appends the "task updated" note and returns (FALSE, FALSE).
C9_RefineTaskUpdatesTheTask ==
    (Called /\ last.function_name = "refine_task"
        /\ DOMAIN last.arguments = {"current_task", "context"})
        => /\ ~last.raised
           /\ current_task = last.output
           /\ messages = Append(prev.messages, Message("assistant", TaskUpdatedNote))
           /\ ~wait_for_user /\ ~done

\* C10: read_file and write_file return the denial, without a call of open(),
\* for exactly the paths whose resolved location is not below the working
\* directory.
C10_FileToolsStayInWorkingDirectory ==
    (Called /\ last.function_name \in {"read_file", "write_file"})
        => LET denied == last.output = Denial /\ last.open_calls = << >>
           IN  denied <=> ~InsideCwd(Resolve(last.arguments.file_path))

C16_OrdinaryToolAppendsTwoMessages ==
    (/\ Called
     /\ last.function_name \in available_functions \ {"ask_to_user", "complete", "refine_task"}
     /\ ~last.raised)
        => LET n == Len(prev.messages)
               content == messages[n + 2].content
           IN  /\ Len(messages) = n + 2
               /\ SubSeq(messages, 1, n) = prev.messages
               /\ messages[n + 1].role = "assistant"
               /\ messages[n + 1].content = <<last.function_name, "_WILL_BE_EXECUTED">>
               /\ messages[n + 2].role = "user"
               /\ \E k \in 1 .. Len(content) :
                      /\ content[k] = "\n<result>\n"
                      /\ k + Len(last.output) + 1 <= Len(content)
                      /\ SubSeq(content, k + 1, k + Len(last.output)) = last.output
                      /\ content[k + Len(last.output) + 1]
                             = "\n</result>\nTHINK_WHAT_TO_DO_NEXT\n\nTASK: "
               /\ ~wait_for_user /\ ~done

\* run_command ran curl, which ended with a nonzero exit code, and search then
\* found nothing: both turns appended their two messages.
C16_Witness ==
    /\ Len(trace) = 2
    /\ trace[1].kind = "tool" /\ trace[1].function_name = "run_command"
    /\ last.function_name = "search"
    /\ Last(last.output) = "NO_SEARCH_RESULTS"
    /\ Len(messages) = 6
    /\ \E k \in 1 .. Len(messages[4].content) : messages[4].content[k] = "EXIT_CODE: "

\* C17: the log of every state that handle_search builds and action() returns
\* has a system message at index 0 and no system message at another index.
C17_SystemMessageOnlyFirst ==
    /\ Len(messages) >= 1
    /\ messages[1].role = "system"
    /\ \A k \in 2 .. Len(messages) : messages[k].role # "system"

\* Four calls of action(), among them a turn without a tool, a tool that raised
\* and a name that is not registered, grew the log to ten messages or more.
C17_Witness ==
    /\ Len(trace) = 4
    /\ \E i, j, k \in 1 .. 4 :
           /\ trace[i].kind = "nudge"
           /\ trace[j].kind = "raised"
           /\ trace[k].kind = "unregistered"
    /\ Len(messages) >= 10
    /\ messages[1] = Message("system", SYSTEM_PROMPT)

\* C18: action() does not change the AgentLocalState it is given, and the log
\* it returns starts with the log it was given.
C18_ActionLeavesItsInputAlone ==
    Called
        => /\ last.state_after = prev
           /\ Len(messages) >= Len(prev.messages)
           /\ SubSeq(messages, 1, Len(prev.messages)) = prev.messages

\* A call whose tool raised appended three messages to its copy; the state it
\* was given still has the log of before.
C18_Witness ==
    /\ last.kind = "raised"
    /\ Len(trace) >= 2
    /\ Len(messages) = Len(prev.messages) + 3
    /\ last.state_after.messages = prev.messages
    /\ Len(prev.messages) > 2

(***************************************************************************)
(* Properties of agent_process_single_task and handle_search.              *)
(***************************************************************************)
Returned(req) == req.pc = "returned"

\* The strings handle_search and the driver build themselves.
FixedErrors == {ErrorBlocked, ErrorTimedOut, ErrorNullResponse, ErrorNoResponse}

\* The message arguments of the calls of `tool` that a request made.
MessagesOf(req, tool) ==
    { req.turns[k].arguments.message :
          k \in { j \in 1 .. Len(req.turns) : req.turns[j].kind = tool } }

\* C12: the driver runs at most 10 iterations of action(), and it returns after
\* fewer than 10 only when the latest iteration returned PAUSED or DONE.
C12_StopsOnlyOnPauseOrDone ==
    \A r \in DOMAIN requests :
        LET req == requests[r]
        IN  /\ Len(req.turns) <= max_iterations
            /\ (Returned(req) /\ Len(req.turns) < max_iterations)
                   => /\ req.turns # << >>
                      /\ Last(req.turns).wait_for_user \/ Last(req.turns).done

\* C13: whenever the 10 iterations are used up and none of them returned DONE or
\* PAUSED, the timeout notice is sent to the progress channel and handle_search
\* returns it.
C13_ExhaustionYieldsTimeout ==
    \A r \in DOMAIN requests :
        LET req == requests[r]
        IN  (/\ Returned(req)
             /\ Len(req.turns) = max_iterations
             /\ \A k \in 1 .. Len(req.turns) :
                    ~req.turns[k].done /\ ~req.turns[k].wait_for_user)
                => /\ req.final_response = ErrorTimedOut
                   /\ req.response = ErrorTimedOut

\* C14: what handle_search returns is the message of a complete call of the
\* request, the prompt of an ask_to_user call of the request, or one of the
\* fixed error strings; never the notice of report_to_user, run_command or
\* infer_knowledge_by_url.
C14_ResponseIsTerminalOutcome ==
    \A r \in DOMAIN requests :
        LET req == requests[r]
        IN  Returned(req)
                => req.response \in
                       MessagesOf(req, "complete") \cup MessagesOf(req, "ask") \cup FixedErrors

\* C15: when an iteration of a request calls complete(m) and the call succeeds,
\* handle_search returns m, whatever report_to_user or another notifying tool
\* sent before and whether or not its send has been run by then.
C15_CompleteMessageIsTheResponse ==
    \A r \in DOMAIN requests :
        LET req == requests[r]
        IN  \A k \in 1 .. Len(req.turns) :
                req.turns[k].kind = "complete"
                    => /\ Returned(req)
                       /\ req.response = req.turns[k].arguments.message

\* report_to_user ran twice, the first send was run by the event loop and the
\* second was not, then complete ended the request with its own message.
C15_Witness ==
    /\ requests # << >>
    /\ LET req == requests[1]
       IN  /\ Len(req.turns) = 3
           /\ req.turns[1].function_name = "report_to_user"
           /\ req.turns[2].function_name = "report_to_user"
           /\ req.turns[3].kind = "complete"
           /\ Len(req.scheduled) = 1
           /\ req.response = <<"m1">>

\* The state a request is in when only its own events, in their order, are
\* applied to the state handle_search builds for its query.
RECURSIVE Replay(_, _)
Replay(req, events) ==
    IF events = << >> THEN req
    ELSE Replay(Step(req, Head(events)), Tail(events))

C22_ResponseIsNonEmptyString ==
    \A r \in DOMAIN requests :
        Returned(requests[r])
            => /\ requests[r].response # None
               /\ requests[r].response # << >>

(***************************************************************************)
(* Properties of select_tool.                                              *)
(***************************************************************************)
\* The parts of a stream before the first one at which reading raises.
RECURSIVE BeforeRaise(_)
BeforeRaise(stream) ==
    IF stream = << >> \/ Head(stream).raises THEN << >>
    ELSE <<Head(stream)>> \o BeforeRaise(Tail(stream))

\* The index of the first part that carries tool calls, 0 when there is none.
FirstToolPart(parts) ==
    LET with == { k \in 1 .. Len(parts) : parts[k].tool_calls # << >> }
    IN  IF with = { } THEN 0 ELSE CHOOSE k \in with : \A j \in with : k <= j

\* The texts of all parts, one after the other.
RECURSIVE Concatenation(_)
Concatenation(parts) ==
    IF parts = << >> THEN << >>
    ELSE Head(parts).content \o Concatenation(Tail(parts))

\* The stream was read to its end, or up to a tool call, without a failure.
ReadWithoutFailure(stream) ==
    \/ Len(BeforeRaise(stream)) = Len(stream)
    \/ FirstToolPart(BeforeRaise(stream)) # 0

\* The first tool call of the first part with tool calls is what is returned.
FirstToolCallHonored(stream, result) ==
    LET k == FirstToolPart(stream)
    IN  k # 0 => /\ result.function_name = stream[k].tool_calls[1].function.name
                 /\ result.arguments = stream[k].tool_calls[1].function.arguments
                 /\ result.all_messages = None

\* C20 as stated: for a stream read without a failure, select_tool returns the
\* first tool call of the first part that carries tool calls; when no part
\* carries one it returns no tool and the concatenation of the texts with
\* everything up to and including the marker removed, the whole text when
\* there is no marker.
C20_TextAfterMarkerAsStreamed ==
    (selection.pc = "returned" /\ ReadWithoutFailure(selection.stream))
        => /\ FirstToolCallHonored(selection.stream, selection.result)
           /\ FirstToolPart(selection.stream) = 0
                  => /\ selection.result.function_name = None
                     /\ selection.result.arguments = None
                     /\ selection.result.all_messages
                            = SplitLast(Concatenation(selection.stream))

\* C20 amended: the same, the text returned being what follows the last marker
\* with the white space at its two ends removed.
C20_TextAfterLastMarkerTrimmed ==
    (selection.pc = "returned" /\ ReadWithoutFailure(selection.stream))
        => /\ FirstToolCallHonored(selection.stream, selection.result)
           /\ FirstToolPart(selection.stream) = 0
                  => /\ selection.result.function_name = None
                     /\ selection.result.arguments = None
                     /\ LET text == Concatenation(selection.stream)
                            at == { k \in 1 .. (Len(text) - 1) :
                                        text[k] = "</" /\ text[k + 1] = "think>" }
                            from == IF at = { } THEN 1
                                    ELSE (CHOOSE k \in at : \A j \in at : k >= j) + 2
                            kept == { k \in from .. Len(text) : text[k] # " " }
                            first == CHOOSE k \in kept : \A j \in kept : k <= j
                            final == CHOOSE k \in kept : \A j \in kept : k >= j
                        IN  selection.result.all_messages
                                = IF kept = { } THEN << >> ELSE SubSeq(text, first, final)

\* The marker came in two parts of the stream, followed by white space and a
\* text: the text alone is returned.
C20_Witness ==
    /\ selection.pc = "returned"
    /\ Len(selection.stream) = 4
    /\ Concatenation(selection.stream) = <<"</", "think>", " ", "a">>
    /\ selection.result.function_name = None
    /\ selection.result.all_messages = <<"a">>

(***************************************************************************)
(* Properties of action() with select_tool.                                *)
(***************************************************************************)
\* Reading the stream raised before any part carried a tool call.
StreamFails(stream) == ~ReadWithoutFailure(stream)

\* A turn without a tool whose text is failure-tagged.
IsFailedTurn(e) == e.function_name = None /\ IsFailedText(e.all_messages)

\* C21: when the inference call raises, before or while it streams, action()
\* returns as it does for a turn without a tool whose text is the
\* failure-tagged message: no_tool_count goes up by one, below the limit the
\* tagged text and the nudge are appended, at the limit the task is ended; a
\* text is failure-tagged only when the call raised; and the third of three
\* consecutive failures returns done = TRUE.
C21_SelectorFailureIsNoToolTurn ==
    /\ (Called /\ selection.pc = "returned")
           => /\ StreamFails(selection.stream) <=> IsFailedTurn(last)
              /\ StreamFails(selection.stream)
                     => /\ last.kind \in {"nudge", "forced"}
                        /\ ~last.raised
                        /\ no_tool_count = last.count_before + 1
                        /\ done <=> NoToolLimitReached(no_tool_count)
                        /\ wait_for_user = done
                        /\ current_task = prev.current_task
                        /\ ~done => messages = prev.messages \o
                                         << Message("assistant", last.all_messages),
                                            Message("user", Nudge(current_task)) >>
                        /\ done => messages = prev.messages
    /\ \A i \in 3 .. Len(trace) :
           (IsFailedTurn(trace[i - 2]) /\ IsFailedTurn(trace[i - 1]) /\ IsFailedTurn(trace[i]))
               => trace[i].done

\* The inference call raised three times in a row, once before streaming
\* and after a text at the end: the task is ended and the log holds the two
\* tagged texts, each followed by the nudge.
C21_Witness ==
    /\ Len(trace) = 3
    /\ \A i \in 1 .. 3 : IsFailedTurn(trace[i])
    /\ selection.stream = << Part(<<"a">>, << >>), RaisingPart >>
    /\ done
    /\ no_tool_count = 3
    /\ Len(messages) = 6
    /\ IsFailedText(messages[3].content)
    /\ IsFailedText(messages[5].content)

(***************************************************************************)
(* Properties of the Slack agent's handle_app_mention.                     *)
(***************************************************************************)
\* The texts of the model that are the command /search, and /search_exit.
SearchCommands == { <<"/search">>, <<" ", "/SEARCH", " ">> }

ExitCommands == { <<"/search_exit">>, <<"/Search_Exit">> }

\* The uses of call_method in what a handler did with its A2A client.
CallsOf(h) == { j \in 1 .. Len(h.a2a) : h.a2a[j].op = "call_method" }

\* C23: handling /search (or /search_exit) leaves the search mode of the
\* event's thread on (off) and that of every other thread as it was, posts
\* exactly one message, the confirmation, in the thread, makes no A2A client,
\* calls no model and leaves every thread log as it was.
C23_CommandsSetSearchModeOnly ==
    (handlers # << >> /\ Last(handlers).event.text \in SearchCommands \cup ExitCommands)
        => LET h == Last(handlers)
               thread_ts == h.event.thread_ts
               on == h.event.text \in SearchCommands
           IN  /\ h.pc = "returned"
               /\ _search_mode_state[thread_ts] = on
               /\ \A t \in Threads \ {thread_ts} :
                      _search_mode_state[t] = h.before._search_mode_state[t]
               /\ h.posts = << [thread_ts |-> thread_ts,
                                text |-> IF on THEN EnteredSearchMode
                                         ELSE ExitedSearchMode] >>
               /\ h.a2a = << >>
               /\ h.chat_calls = << >>
               /\ h.appended = << >>
               /\ _messages = h.before._messages

\* Both threads were put in search mode, then /search_exit was sent in the
\* first: the first thread is out of search mode and the second is still in.
C23_Witness ==
    /\ Len(handlers) = 3
    /\ handlers[1].event = Event("t1", <<"/search">>)
    /\ handlers[2].event = Event("t2", <<" ", "/SEARCH", " ">>)
    /\ handlers[3].event = Event("t1", <<"/Search_Exit">>)
    /\ handlers[3].pc = "returned"
    /\ handlers[3].before._search_mode_state["t1"]
    /\ ~_search_mode_state["t1"]
    /\ _search_mode_state["t2"]
    /\ Len(handlers[3].posts) = 1

\* The latest handler has returned from a message, not a command, sent in a
\* thread that was in search mode.
SearchModeMessageHandled ==
    /\ handlers # << >>
    /\ Last(handlers).pc = "returned"
    /\ Last(handlers).event.text \notin SearchCommands \cup ExitCommands
    /\ Last(handlers).before._search_mode_state[Last(handlers).event.thread_ts]

\* C24 as stated: a message handled in search mode made exactly one call of
\* handle_search, with the text as query, and exactly one post in the thread:
\* the result when the call returned, the error text when it raised; no model
\* was called and no thread log changed.
C24_ForwardedWithExactlyOneCall ==
    SearchModeMessageHandled
        => LET h == Last(handlers)
           IN  /\ Cardinality(CallsOf(h)) = 1
               /\ \A j \in CallsOf(h) : /\ h.a2a[j].method = "handle_search"
                                        /\ h.a2a[j].query = h.event.text
               /\ Len(h.posts) = 1
               /\ h.posts[1].thread_ts = h.event.thread_ts
               /\ h.a2a_result.status = "returned"
                      => h.posts[1].text = <<"Search results:\n">> \o h.a2a_result.content
               /\ h.a2a_result.status # "returned"
                      => h.posts[1].text = <<"Error communicating with search agent: ">>
                                               \o h.a2a_result.e
               /\ h.chat_calls = << >>
               /\ h.appended = << >>
               /\ _messages = h.before._messages

\* C24 amended: the same, with exactly one call of handle_search when the
\* connection was established and none when connect raised; the error text is
\* posted when connect or the call raised.
C24_ForwardedOnceWhenConnected ==
    SearchModeMessageHandled
        => LET h == Last(handlers)
           IN  /\ Cardinality(CallsOf(h))
                      = (IF h.a2a_result.status = "connect_raised" THEN 0 ELSE 1)
               /\ \A j \in CallsOf(h) : /\ h.a2a[j].method = "handle_search"
                                        /\ h.a2a[j].query = h.event.text
               /\ Len(h.posts) = 1
               /\ h.posts[1].thread_ts = h.event.thread_ts
               /\ h.a2a_result.status \in {"returned", "raised", "connect_raised"}
               /\ h.a2a_result.status = "returned"
                      => h.posts[1].text = <<"Search results:\n">> \o h.a2a_result.content
               /\ h.a2a_result.status # "returned"
                      => h.posts[1].text = <<"Error communicating with search agent: ">>
                                               \o h.a2a_result.e
               /\ h.chat_calls = << >>
               /\ h.appended = << >>
               /\ _messages = h.before._messages

\* A text that begins like the command was sent in a thread in search mode,
\* the search agent answered with a dict that has a result, and the result
\* was posted; the thread has no log.
C24_Witness ==
    /\ SearchModeMessageHandled
    /\ Last(handlers).event.text = <<"/search", " ", "x">>
    /\ Last(handlers).a2a_result.status = "returned"
    /\ Last(handlers).posts
           = << [thread_ts |-> Last(handlers).event.thread_ts,
                 text |-> <<"Search results:\n", "r3">>] >>
    /\ _messages[Last(handlers).event.thread_ts] = << >>

\* C25: when a handler that got a connection (connect returned, call_method
\* was awaited) has returned, the client is disconnected: disconnect was the
\* last thing done with it, once, whether call_method returned or raised; and
\* no handler that has returned holds a connection.
C25_DisconnectedOnReturn ==
    \A k \in DOMAIN handlers :
        LET h == handlers[k]
        IN  h.pc = "returned"
                => /\ ~h.connected
                   /\ CallsOf(h) # { }
                          => /\ Last(h.a2a).op = "disconnect"
                             /\ Cardinality({ j \in 1 .. Len(h.a2a) :
                                                  h.a2a[j].op = "disconnect" }) = 1
                             /\ h.a2a_result.status \in {"returned", "raised"}

\* call_method raised and the handler has returned: the error was posted and
\* the client was disconnected.
C25_Witness ==
    /\ handlers # << >>
    /\ Last(handlers).pc = "returned"
    /\ Last(handlers).a2a_result.status = "raised"
    /\ Last(Last(handlers).a2a).op = "disconnect"
    /\ ~Last(handlers).connected
    /\ Len(Last(handlers).posts) = 1

(***************************************************************************)
(* More properties of ToolCaller.action: what a turn appends to the log.   *)
(***************************************************************************)
\* The text holds the task description.
HoldsTask(content, task) ==
    \E k \in 0 .. (Len(content) - Len(task)) :
        SubSeq(content, k + 1, k + Len(task)) = task

\* C32: every action() call that returns done = TRUE returns the log it was
\* given extended by one assistant message, the terminal entry, both for a
\* complete the selector chose and for the forced end after three turns
\* without a tool.
C32_DoneTurnAppendsTerminalEntry ==
    (Called /\ done) =>
        LET n == Len(prev.messages)
        IN  /\ Len(messages) = n + 1
            /\ SubSeq(messages, 1, n) = prev.messages
            /\ messages[n + 1].role = "assistant"

\* C33: every tool-result message action() appends, the user message after
\* the announcement of a tool, holds the current task description, whether
\* the tool returned, raised, or the name is not registered.
C33_ToolResultHoldsTask ==
    (Called /\ last.kind \in {"tool", "raised", "unregistered"}) =>
        /\ Len(messages) >= 2
        /\ messages[Len(messages) - 1].content = Announcement(last.function_name)
        /\ messages[Len(messages)].role = "user"
        /\ HoldsTask(messages[Len(messages)].content, current_task)

\* C34: a turn without a tool that leaves the streak at 1 or 2 appends
\* exactly two messages, an assistant message with the text of the selector
\* (the placeholder when it is empty) and a user message, the nudge, that
\* holds the current task; it returns (wait_for_user, done) = (FALSE, FALSE)
\* and the task as it was.
C34_NoToolTurnAppendsTextAndNudge ==
    (Called /\ IsNoToolTurn(last) /\ ~NoToolLimitReached(last.count_before + 1)) =>
        LET n == Len(prev.messages)
        IN  /\ Len(messages) = n + 2
            /\ SubSeq(messages, 1, n) = prev.messages
            /\ messages[n + 1] =
                   Message("assistant", IF last.all_messages = << >> THEN NoToolPlaceholder
                                        ELSE last.all_messages)
            /\ messages[n + 1].content # << >>
            /\ messages[n + 2].role = "user"
            /\ messages[n + 2].content # prev.current_task
            /\ HoldsTask(messages[n + 2].content, prev.current_task)
            /\ ~wait_for_user /\ ~done
            /\ current_task = prev.current_task
            /\ no_tool_count \in {1, 2}

\* A second turn without a tool in a row, with an empty text, after one with
\* a text: the placeholder and the nudge were appended.
C34_Witness ==
    /\ Len(trace) = 2
    /\ IsNoToolTurn(trace[1]) /\ trace[1].all_messages = <<"t1">>
    /\ IsNoToolTurn(last) /\ last.all_messages = << >>
    /\ no_tool_count = 2
    /\ Len(messages) = Len(prev.messages) + 2
    /\ messages[Len(messages) - 1].content = NoToolPlaceholder
    /\ ~done

\* C35: when an iteration of a request pauses through ask_to_user,
\* handle_search returns the fixed text ErrorBlocked for the request, whatever
\* notifying tools ran in the iterations before.
C35_PauseYieldsBlockedError ==
    \A r \in DOMAIN requests :
        LET req == requests[r]
        IN  \A k \in 1 .. Len(req.turns) :
                req.turns[k].kind = "ask"
                    => /\ Returned(req)
                       /\ req.response = ErrorBlocked

(***************************************************************************)
(* Properties of handle_app_mention of the Slack bot (src/main.py).        *)
(***************************************************************************)
\* The text has a python block: an opening fence and a closing fence after it.
HasBlock(text) ==
    \E i, j \in 1 .. Len(text) : i < j /\ text[i] = FenceOpen /\ text[j] = FenceClose

\* The calls of the model that ask for a reply.
ReplyCalls(h) == SelectSeq(h.chat_calls, LAMBDA c : c.call \in {"first", "second"})

\* What the returned call k of the handler appended to the log of its thread:
\* the system message if the log was empty, the user message, the reply with
\* its tool messages if the reply (what follows the reasoning) has blocks,
\* and the final assistant message; the log is the old log and these.
LogExtended(k) ==
    LET h == handlers[k]
        thread_ts == h.event.thread_ts
        before == h.before._messages[thread_ts]
        a == h.appended
        s == IF before = << >> THEN 1 ELSE 0
        reply == SplitLast(h.res[1])
        blocks == extract_python_code(reply)
        n == Len(blocks)
    IN  /\ Len(h.res) >= 1
        /\ Len(a) >= s + 2
        /\ s = 1 => a[1].role = "system"
        /\ a[s + 1] = Message("user", h.event.text)
        /\ \A i \in (s + 1) .. Len(a) : a[i].role # "system"
        /\ IF HasBlock(reply)
               THEN /\ n >= 1
                    /\ Len(h.res) = 2
                    /\ Len(a) = s + n + 3
                    /\ a[s + 2] = Message("assistant", reply)
                    /\ \A i \in 1 .. n :
                           a[s + 2 + i] =
                               Message("tool", dumps(execute_python_code(blocks[i])))
                    /\ a[s + n + 3] = Message("assistant", SplitLast(h.res[2]))
           ELSE /\ Len(h.res) = 1
                /\ Len(a) = s + 2
                /\ a[s + 2] = Message("assistant", reply)
        /\ k = Len(handlers) =>
               /\ _messages[thread_ts] = before \o a
               /\ \A t \in Threads \ {thread_ts} : _messages[t] = h.before._messages[t]

LastAssistant(a) ==
    a[CHOOSE i \in DOMAIN a :
          /\ a[i].role = "assistant"
          /\ \A j \in DOMAIN a : a[j].role = "assistant" => j <= i]

C36_SummaryTextIsTheLogOnce ==
    \A k \in DOMAIN handlers :
        LET h == handlers[k]
            log == h.before._messages[h.event.thread_ts] \o h.appended
        IN  \A c \in DOMAIN h.chat_calls :
                h.chat_calls[c].call = "summary" =>
                    h.chat_calls[c].messages = summarization_messages(log)

\* The position of the statement at which the code stops with an error, 0
\* when it runs to its end.
ErrorAt(code_string) ==
    LET at == { k \in DOMAIN code_string : code_string[k] \in {"1/0", "sys.exit()"} }
    IN  IF at = { } THEN 0 ELSE CHOOSE k \in at : \A j \in at : k <= j

\* What the code printed before it stopped.
PrintedBefore(code_string) ==
    LET end == IF ErrorAt(code_string) = 0 THEN Len(code_string)
               ELSE ErrorAt(code_string) - 1
    IN  [i \in 1 .. Cardinality({ k \in 1 .. end : code_string[k] = "print(1)" }) |-> "1\n"]

\* C31: execute_python_code does not raise for code that raises or does not
\* compile: it returns the dict, with the traceback in stderr and with what
\* was printed before the error in stdout; and after every call sys.stdout
\* and sys.stderr are what they were before it.
C31_NeverRaisesAndRestores ==
    python_last.op = "execute_python_code" =>
        LET code_string == python_last.code_string
        IN  /\ python_last.sys_after = python_last.sys_before
            /\ ~python_last.raised
            /\ ~Compiles(code_string) =>
                   /\ python_last.result.stdout = << >>
                   /\ python_last.result.stderr = <<"Traceback", "SyntaxError">>
            /\ (Compiles(code_string) /\ ErrorAt(code_string) # 0) =>
                   /\ python_last.result.stdout = PrintedBefore(code_string)
                   /\ Head(python_last.result.stderr) = "Traceback"

\* C31 for the errors that are Exceptions, and the restoring in every case.
PythonErrorsContained ==
    python_last.op = "execute_python_code" =>
        LET code_string == python_last.code_string
        IN  /\ python_last.sys_after = python_last.sys_before
            /\ python_last.raised <=>
                   (Compiles(code_string) /\ ErrorAt(code_string) # 0
                    /\ code_string[ErrorAt(code_string)] = "sys.exit()")
            /\ ~python_last.raised =>
                   /\ ~Compiles(code_string) =>
                          /\ python_last.result.stdout = << >>
                          /\ python_last.result.stderr = <<"Traceback", "SyntaxError">>
                   /\ (Compiles(code_string) /\ ErrorAt(code_string) # 0) =>
                          /\ python_last.result.stdout = PrintedBefore(code_string)
                          /\ Head(python_last.result.stderr) = "Traceback"

(***************************************************************************)
(* Properties of the memory functions of src/main.py.                      *)
(***************************************************************************)
\* The calls of add_memory for the thread, as positions in the history.
CallsFor(thread_ts) ==
    { i \in DOMAIN db_last.calls : db_last.calls[i].thread_ts = thread_ts }

\* The most recent call of add_memory for a thread that has one.
MostRecentCall(thread_ts) ==
    db_last.calls[CHOOSE i \in CallsFor(thread_ts) :
                      \A j \in CallsFor(thread_ts) : j <= i]

Min(a, b) == IF a < b THEN a ELSE b

C30_PromptWithMemoriesOnlyWhenOnAndAny ==
    db_last.op = "_construct_initial_system_prompt" =>
        LET start == IF db_last.is_recipe THEN RecipePrompt ELSE db_last.base_prompt
            recent == db_last.recent_memories
            n == Len(recent)
            lines == SubSeq(db_last.result,
                            Len(start) + Len(memory_header) + 1, Len(db_last.result))
        IN  /\ ~MEMORY_FEATURE_ENABLED => db_last.result = start /\ db_last.reads = 0
            /\ MEMORY_FEATURE_ENABLED /\ n = 0 => db_last.result = start
            /\ MEMORY_FEATURE_ENABLED /\ n > 0 =>
                   /\ SubSeq(db_last.result, 1, Len(start) + Len(memory_header))
                          = start \o memory_header
                   /\ Len(lines) = 3 * n - 1
                   /\ \A i \in 1 .. n :
                          /\ lines[3 * i - 2] = "- "
                          /\ << lines[3 * i - 1] >> = recent[i]
                          /\ i < n => lines[3 * i] = "\n"

\* The prompt of a recipe request was made with the memory feature on and
\* two memories in the table.
C30_Witness ==
    /\ db_last.op = "_construct_initial_system_prompt"
    /\ MEMORY_FEATURE_ENABLED
    /\ db_last.is_recipe
    /\ db_last.base_prompt # RecipePrompt
    /\ Len(db_last.recent_memories) = 2
    /\ Len(db_last.result) > Len(RecipePrompt)

====
